---- MODULE Spec2Model ----
(***************************************************************************)
(* A model of measure-fn (src/unnamed/part_005): the id generator, the     *)
(* event emitter, the async and sync execution wrappers with their nested  *)
(* resolvers, timeout, assert, retry and batch.                            *)
(*                                                                         *)
(* Strings that are taken apart (id tokens, id paths) are sequences of     *)
(* one-character strings; labels and messages are TLA+ strings.            *)
(*                                                                         *)
(* JavaScript runs one job at a time.  An action of this model is one      *)
(* such job (the code between two awaits), except for a measureSync call   *)
(* tree, which is a single job: its call stack is syncStack, and while it  *)
(* is non-empty only the frame on top of it moves.                         *)
(***************************************************************************)
EXTENDS Integers, Sequences, FiniteSets, TLC

\* ------------------------------------------------------------------ bounds
MaxWork == 6         \* size of one behaviour, in half operations (see Spend)
RootStart == 25      \* root counter of the default instance when observation starts
MaxAlpha == 703      \* largest integer handed to toAlpha in SpecAlpha

\* ------------------------------------------------------------- environment
\* The default instance, createMeasure('app') and createMeasure('db').
Inst == {"global", "app", "db"}
PrefixOf(i) ==
    CASE i = "global" -> <<>>
      [] i = "app" -> <<"a", "p", "p">>
      [] i = "db" -> <<"d", "b">>
Labels == {"job"}
Timeouts == {0, 1500}                    \* the label's timeout; 0: it carries none
Handlers == {"none", "returns", "throws", "rejects"}
UnitVals == {"ok", "null"}               \* what a unit may return
Null == "null"
Fallback == "fallback"                   \* what a returning onError handler returns
Delays == {100}                          \* the delay option of measure.retry, in ms
Backoffs == {2}                          \* the backoff option of measure.retry
EveryOpts == {0, 2}                      \* the every option of measure.batch; 0: absent

\* An error value is identified by who created it: JavaScript compares errors
\* by reference, and two errors here are the same object iff they are equal.
NoErr == [kind |-> "none", of |-> 0, msg |-> ""]
UnitErr(c) == [kind |-> "unit", of |-> c, msg |-> "boom"]
HandlerErr(c) == [kind |-> "onError", of |-> c, msg |-> "handler failed"]

\* ------------------------------------------------------------ id generation
Letters == <<"a", "b", "c", "d", "e", "f", "g", "h", "i", "j", "k", "l", "m",
             "n", "o", "p", "q", "r", "s", "t", "u", "v", "w", "x", "y", "z">>

\* A plausible slip: plain base 26 (no "- 1"), so 26 encodes as "ba".
RECURSIVE toAlphaLoopPlain26(_, _)
toAlphaLoopPlain26(n, result) ==
    LET r == <<Letters[(n % 26) + 1]>> \o result
        n2 == n \div 26
    IN IF n2 > 0 THEN toAlphaLoopPlain26(n2, r) ELSE r

\* The do-while loop of toAlpha: one iteration, then again while n >= 0.
RECURSIVE toAlphaLoop(_, _)
toAlphaLoop(n, result) ==
    LET r == <<Letters[(n % 26) + 1]>> \o result
        n2 == (n \div 26) - 1
    IN IF n2 >= 0 THEN toAlphaLoop(n2, r) ELSE r

toAlpha(num) == toAlphaLoop(num, <<>>)

\* Array.prototype.join('-') on an array of tokens.
RECURSIVE Join(_)
Join(chain) ==
    IF chain = <<>> THEN <<>>
    ELSE IF Len(chain) = 1 THEN chain[1]
    ELSE chain[1] \o <<"-">> \o Join(Tail(chain))

\* -------------------------------------------------------- duration formatting
\* formatDuration on a whole number of milliseconds.  toFixed(1) rounds to the
\* nearest tenth; the inputs used here are exact in binary floating point.
formatDuration(ms) ==
    IF ms < 1000 THEN ToString(ms) \o ".00ms"
    ELSE IF ms < 60000
         THEN LET tenths == (ms + 50) \div 100
              IN ToString(tenths \div 10) \o "." \o ToString(tenths % 10) \o "s"
         ELSE ToString(ms \div 60000) \o "m "
              \o ToString(((ms % 60000) + 500) \div 1000) \o "s"

TimeoutErr(c, t) ==
    [kind |-> "timeout", of |-> c, msg |-> "Timeout (" \o formatDuration(t) \o ")"]

VARIABLES
    counter,      \* [Inst -> Nat]: globalRootCounter / scopeCounter.value
    lastError,    \* [Inst -> error]: _lastError of each createMeasureImpl closure
    silent,       \* configuration: silent
    logger,       \* configuration: "none" (null), or a custom logger: "sink"
                  \* returns, "throws" throws whenever it is called
    calls,        \* wrapper invocations, in order of invocation
    syncStack,    \* call stack of the running measureSync tree (top is last)
    retries,      \* measure.retry invocations
    batches,      \* measure.batch invocations
    log,          \* the calls of emit, in order, each with where it went
    nOps,         \* [Inst -> Nat]: top-level operations since the last reset
    work,         \* size of the behaviour so far (see Spend)
    epoch,        \* [Inst -> Nat]: resets of the root counter so far
    wraps,        \* the functions made by measure.wrap and measureSync.wrap
    alphaPc, alphaN, alphaM, alphaTokN, alphaTokM,  \* toAlpha under test (SpecAlpha)
    metaPc, metaIn, metaOut,                        \* extractMeta under test (SpecMeta)
    limCalls,     \* label options of nested calls (SpecLimits)
    rendering,    \* configuration: timestamps, maxResultLen, dotEndLabel, dotChar
    lastOpts      \* the argument of the latest configure call, and its number

engineVars == <<counter, lastError, silent, logger, calls, syncStack, retries,
                batches, log, nOps, work, epoch, wraps>>
alphaVars == <<alphaPc, alphaN, alphaM, alphaTokN, alphaTokM>>
metaVars == <<metaPc, metaIn, metaOut>>
limVars == <<limCalls>>
cfgVars == <<rendering, lastOpts>>
vars == <<engineVars, alphaVars, metaVars, limVars, cfgVars>>

\* --------------------------------------------------------------- the emitter
\* defaultLogger shows the id as `${prefix}:${event.id}`.
RenderedId(ev, prefix) ==
    IF prefix # <<>> THEN prefix \o <<":">> \o ev.id ELSE ev.id

\* The call emit(event, prefix) as it is made: pfx is the prefix argument and
\* cfg the configuration in force.
Handed(ev, prefix) ==
    [ev EXCEPT !.pfx = prefix, !.cfg = [silent |-> silent, logger |-> logger]]

\* A slip: a scoped instance does not look at the configuration.
emitScopedApart(lg, ev, prefix) ==
    IF prefix # <<>>
    THEN Append(lg, [Handed(ev, prefix) EXCEPT !.to = "console",
                                               !.shown = RenderedId(ev, prefix)])
    ELSE IF silent THEN Append(lg, [Handed(ev, prefix) EXCEPT !.to = "dropped"])
    ELSE IF logger # "none"
         THEN Append(lg, [Handed(ev, prefix) EXCEPT !.to = "logger", !.shown = ev.id])
         ELSE Append(lg, [Handed(ev, prefix) EXCEPT !.to = "console",
                                                    !.shown = RenderedId(ev, prefix)])

\* A slip: the custom logger is asked before silent is.
emitLoggerFirst(lg, ev, prefix) ==
    IF logger # "none"
    THEN Append(lg, [Handed(ev, prefix) EXCEPT !.to = "logger", !.shown = ev.id])
    ELSE IF silent THEN Append(lg, [Handed(ev, prefix) EXCEPT !.to = "dropped"])
         ELSE Append(lg, [Handed(ev, prefix) EXCEPT !.to = "console",
                                                    !.shown = RenderedId(ev, prefix)])

\* emit(event, prefix): nothing when silent; the custom logger gets the event
\* itself; otherwise defaultLogger renders it.  `to` is where the event went
\* and `shown` the id visible there.
emit(lg, ev, prefix) ==
    IF silent THEN Append(lg, [Handed(ev, prefix) EXCEPT !.to = "dropped"])
    ELSE IF logger # "none"
         THEN Append(lg, [Handed(ev, prefix) EXCEPT !.to = "logger", !.shown = ev.id])
         ELSE Append(lg, [Handed(ev, prefix) EXCEPT !.to = "console",
                                                    !.shown = RenderedId(ev, prefix)])

\* Whether a call of emit throws: the custom logger is called and throws.
EmitThrows == ~silent /\ logger = "throws"

\* What a throwing logger throws.
LoggerErr == [kind |-> "logger", of |-> 0, msg |-> "logger failed"]

\* A MeasureEvent.  src names the invocation that emitted it and op the index,
\* since the last reset, of the top-level operation whose id it carries
\* (-1 when the id was not allocated from a root counter).
Event(type, id, label, depth, err, result, src, op) ==
    [type |-> type, id |-> id, label |-> label, depth |-> depth, err |-> err,
     result |-> result, src |-> src, op |-> op, to |-> "", shown |-> <<>>,
     pfx |-> <<>>, cfg |-> [silent |-> FALSE, logger |-> "none"]]

CallSrc(c) == [k |-> "call", n |-> c]
RetrySrc(r) == [k |-> "retry", n |-> r]
BatchSrc(b) == [k |-> "batch", n |-> b]
TopSrc == [k |-> "top", n |-> 0]

\* -------------------------------------------------------------- initial state
InitAlphaIdle ==
    /\ alphaPc = "idle"
    /\ alphaN = 0
    /\ alphaM = 0
    /\ alphaTokN = <<>>
    /\ alphaTokM = <<>>

\* An option of configure's argument: absent (or undefined), or given.
Absent(d) == [has |-> FALSE, v |-> d]
Given(x) == [has |-> TRUE, v |-> x]

\* configure has not been called.
NoOpts ==
    [n |-> 0,
     opts |-> [silent |-> Absent(FALSE), logger |-> Absent("none"),
               timestamps |-> Absent(FALSE), maxResultLength |-> Absent(0),
               dotEndLabel |-> Absent(FALSE), dotChar |-> Absent("")]]

\* let maxResultLen = 0, timestamps (MEASURE_TIMESTAMPS unset), dotEndLabel =
\* true, dotChar = the middle dot.
RenderingAtLoad ==
    [timestamps |-> FALSE, maxResultLen |-> 0, dotEndLabel |-> TRUE, dotChar |-> "."]

\* What module load leaves besides the counters.
InitLoaded ==
    /\ lastError = [i \in Inst |-> NoErr]
    /\ silent = FALSE
    /\ logger = "none"
    /\ calls = <<>>
    /\ syncStack = <<>>
    /\ retries = <<>>
    /\ batches = <<>>
    /\ log = <<>>
    /\ epoch = [i \in Inst |-> 0]
    /\ wraps = <<>>
    /\ limCalls = <<>>
    /\ rendering = RenderingAtLoad
    /\ lastOpts = NoOpts

\* Module load, or the default instance after RootStart label-only calls made
\* while silent (which leave nothing but the counter behind).
InitEngine ==
    /\ counter \in {[i \in Inst |-> IF i = "global" THEN g ELSE 0] : g \in {0, RootStart}}
    /\ nOps = counter
    /\ work = IF counter["global"] = 0 THEN 0 ELSE 2
    /\ InitLoaded

\* A label is a plain string or an object; of an object only the names of its
\* attributes matter to extractMeta, their values are copied as they are.
PlainLabel == [obj |-> FALSE, keys |-> {}]
ObjectLabel(ks) == [obj |-> TRUE, keys |-> ks]
NoMeta == [present |-> FALSE, keys |-> {}]

\* extractMeta is not under test.
InitMetaIdle ==
    /\ metaPc = "idle"
    /\ metaIn = PlainLabel
    /\ metaOut = NoMeta

Init == InitEngine /\ InitAlphaIdle /\ InitMetaIdle

\* ------------------------------------------------------------- call records
NoOutcome == [kind |-> "none", val |-> "", err |-> NoErr]
ValueOutcome(v) == [kind |-> "value", val |-> v, err |-> NoErr]      \* returned / resolved
RejectOutcome(e) == [kind |-> "reject", val |-> "", err |-> e]       \* threw / rejected

\* performance.now() never goes back; the clock is read as the number of
\* events emitted so far.
Now(lg) == Len(lg)

\* A slip: the two readings of the clock are subtracted the wrong way round.
DurationBackwards(start, end) == start - end

\* performance.now() - start
Duration(start, end) == end - start

\* { result, duration } of measure.timed and measureSync.timed.
NoTimed == [result |-> "", duration |-> -1]
TimedResult(result, start, end) == [result |-> result, duration |-> Duration(start, end)]

\* The ways into measureFn and measureSyncFn: the function itself, .assert, a
\* function made by .wrap, .timed.
Vias == {"measure", "assert", "wrap", "timed"}

\* The locals of one _measureInternal / _measureInternalSync invocation, and
\* what became of it.  fullIdChain is `chain`; idStr is Join(chain).
NewCall(i, flavor, parent, chain, depth, label, timeout, onErr, takesM, via, op, shaped) ==
    [inst |-> i, shaped |-> shaped, flavor |-> flavor, parent |-> parent, chain |-> chain,
     depth |-> depth, label |-> label, timeout |-> timeout, onErr |-> onErr,
     takesM |-> takesM, via |-> via, op |-> op,
     childCounter |-> 0,
     unit |-> "running",          \* the unit: running, returned, threw
     unitVal |-> "",              \* what the unit returned
     thrown |-> NoErr,            \* what the unit threw
     st |-> "pending",            \* the wrapper: pending, settled
     endedBy |-> "",              \* what settled it: return, throw, timeout
     caught |-> NoErr,            \* what its catch block caught
     onErrorCalls |-> <<>>,       \* the invocations of its handler
     awaitable |-> {},            \* its children settled when its unit ended
     outcome |-> NoOutcome,       \* what the wrapper gave its caller
     timer |-> IF flavor = "async" /\ timeout > 0 THEN "armed" ELSE "none",
     killedBy |-> 0,              \* the child whose rejection ended the unit
     assertSt |-> IF via = "assert" THEN "waiting" ELSE "n/a",
     assertCause |-> NoErr,
     assertMsg |-> "",
     timedSt |-> IF via = "timed" THEN "waiting" ELSE "n/a",
     timedStart |-> Now(log),     \* performance.now() as .timed reads it first
     timedOut |-> NoTimed,        \* what .timed returned
     wrapper |-> 0,               \* the wrapped function this is an invocation of
     args |-> <<>>,               \* the arguments that invocation was given
     unitArgs |-> <<>>,           \* the arguments the wrapped function received
     epoch |-> epoch[i],          \* resets of the instance before this invocation
     rootEpoch |-> IF parent = 0 THEN epoch[i] ELSE calls[parent].rootEpoch]

idStr(rec) == Join(rec.chain)

\* A slip: the resolver hands on its own depth.
ChildDepthSame(depth) == depth

\* createNestedResolver: the resolver recurses with depth + 1.
ChildDepth(depth) == depth + 1

\* The size of a behaviour is bounded by MaxWork.  Every invocation (a call
\* with a unit, a label-only call, an attempt of a retry, an item of a batch, a
\* reset, a configure, a wrap) counts two, and every departure from plain use
\* counts one more; plain use is `measure(label, fn)` or
\* `measureSync(label, fn)` on the default instance, with no timeout and no
\* handler, whose unit returns a value other than null or throws.  A call that
\* departs in its arguments is `shaped`.
Bit(b) == IF b THEN 1 ELSE 0
Shaped(i, t, h, via) ==
    i # "global" \/ t > 0 \/ h # "none" \/ via \in {"assert", "timed"}
Spend(n) == work + n <= MaxWork /\ work' = work + n

\* A slip: the id is read without the increment.
RootAfterStuck(n) == n

\* counter.value++: the value the counter holds afterwards.
RootAfter(n) == n + 1

\* A top-level operation of instance i takes the next root id; nOps counts it.
BumpRoot(i) ==
    /\ counter' = [counter EXCEPT ![i] = RootAfter(@)]
    /\ nOps' = [nOps EXCEPT ![i] = @ + 1]

\* A slip: the race is not a race, a late unit still reports.
RaceOpenAlways(rec) == TRUE

\* A slip: with a timer armed only the timer is awaited.
RaceOpenDeaf(rec) == rec.st = "pending" /\ rec.timer # "armed"

\* Promise.race settles once: what the unit or the timer does afterwards is
\* not seen by the wrapper.  Without a timeout the unit alone settles it.
RaceOpen(rec) == rec.st = "pending"

\* A slip: the child forgets its parent's chain.
ChildChainFlat(rec) == <<toAlpha(rec.childCounter)>>

\* [...fullIdChain, childCounterRef.value++] as _measureInternal encodes it.
ChildChain(rec) == rec.chain \o <<toAlpha(rec.childCounter)>>

\* A wrapper that an exception of emit leaves: nothing catches it, so the
\* async wrapper rejects and the sync wrapper throws, with the logger's error.
Faulted(rec) ==
    [rec EXCEPT !.st = "settled", !.endedBy = "emit",
                !.outcome = RejectOutcome(LoggerErr),
                !.assertSt = IF rec.via = "assert" /\ rec.flavor = "sync"
                             THEN "aborted" ELSE rec.assertSt,
                !.timedSt = IF rec.via = "timed" /\ rec.flavor = "sync"
                            THEN "aborted" ELSE rec.timedSt]

\* The start event is emitted before the try block: when emit throws there
\* the unit is never invoked and no timer is armed.
Unstarted(rec) == [Faulted(rec) EXCEPT !.unit = "unstarted", !.timer = "none"]

\* ------------------------------------------------------ the async wrapper
\* _measureInternal up to the invocation of the unit: the id is the encoded
\* last element of parentIdChain appended to the rest, and a start event is
\* emitted.
StartAsync(rec) ==
    /\ calls' = Append(calls, IF EmitThrows THEN Unstarted(rec) ELSE rec)
    /\ log' = emit(log, Event("start", idStr(rec), rec.label, rec.depth, NoErr, "",
                              CallSrc(Len(calls) + 1), rec.op), PrefixOf(rec.inst))

\* A slip: without a handler the error is thrown on.
OnErrorOutcomeRethrow(h, c) ==
    CASE h = "none" -> RejectOutcome(UnitErr(c))
      [] h = "returns" -> ValueOutcome(Fallback)
      [] h = "throws" -> ValueOutcome(Null)
      [] h = "rejects" -> RejectOutcome(HandlerErr(c))

\* What the catch block returns once the error event is out.  A handler that
\* returns a promise which rejects makes the async function's promise reject.
OnErrorOutcome(h, c) ==
    CASE h = "none" -> ValueOutcome(Null)
      [] h = "returns" -> ValueOutcome(Fallback)
      [] h = "throws" -> ValueOutcome(Null)
      [] h = "rejects" -> RejectOutcome(HandlerErr(c))

\* A slip: the failure of the handler is swallowed without an event.
CatchEventsQuiet(lg, c, rec, e) ==
    emit(lg, Event("error", idStr(rec), rec.label, rec.depth, e, "",
                   CallSrc(c), rec.op), PrefixOf(rec.inst))

\* The events of the catch block: the error event, and a second one, labelled
\* `${label} (onError)`, when the handler throws.
CatchEvents(lg, c, rec, e) ==
    LET first == emit(lg, Event("error", idStr(rec), rec.label, rec.depth, e, "",
                                CallSrc(c), rec.op), PrefixOf(rec.inst))
    IN IF rec.onErr = "throws"
       THEN emit(first, Event("error", idStr(rec), rec.label \o " (onError)", rec.depth,
                              HandlerErr(c), "", CallSrc(c), rec.op), PrefixOf(rec.inst))
       ELSE first

\* A slip: the handler is asked before the error event is emitted.
onErrorCallEarly(rec, e, emitted) ==
    IF rec.onErr = "none" THEN <<>> ELSE <<[arg |-> e, after |-> emitted - 1]>>

\* if (onError) { ... onError(error) }: the invocation of the handler, with
\* the error it is given and the number of events emitted before it.
onErrorCall(rec, e, emitted) ==
    IF rec.onErr = "none" THEN <<>> ELSE <<[arg |-> e, after |-> emitted]>>

\* _lastError after the catch block.
CatchLastError(rec, c, e) == IF rec.onErr = "throws" THEN HandlerErr(c) ELSE e

\* The catch block of _measureInternal for call c (record rec) catching e.
\* When the emit of the error event throws, the rest of the block is not run.
Catch(c, rec, e) ==
    IF EmitThrows
    THEN /\ log' = emit(log, Event("error", idStr(rec), rec.label, rec.depth, e, "",
                                   CallSrc(c), rec.op), PrefixOf(rec.inst))
         /\ calls' = [calls EXCEPT ![c] = [Faulted(rec) EXCEPT !.caught = e]]
         /\ UNCHANGED lastError
    ELSE /\ log' = CatchEvents(log, c, rec, e)
         /\ lastError' = [lastError EXCEPT ![rec.inst] = CatchLastError(rec, c, e)]
         /\ calls' = [calls EXCEPT ![c] = [rec EXCEPT !.st = "settled", !.caught = e,
                                                      !.onErrorCalls = onErrorCall(rec, e, Len(log) + 1),
                                                      !.outcome = OnErrorOutcome(rec.onErr, c)]]

\* The argument lists a caller may hand to a wrapped function.
WrapArgs == {<<21>>, <<1, 2>>}

\* fn(...args): what the wrapped function receives of the arguments a.
PassedArgs(a) == a

\* The wrapped functions an invocation by way of `via` may be of (0: none),
\* and the arguments it may be given.
WrappersFor(i, flavor, l, via) ==
    IF via = "wrap"
    THEN {w \in 1..Len(wraps) : /\ wraps[w].inst = i /\ wraps[w].flavor = flavor
                                /\ wraps[w].label = l}
    ELSE {0}
ArgsFor(via) == IF via = "wrap" THEN WrapArgs ELSE {<<>>}

\* (...args) => measureFn(label, () => fn(...args)): the call an invocation
\* of wrapped function w with arguments a makes.
Invoked(rec, w, a) ==
    [rec EXCEPT !.wrapper = w, !.args = a,
                !.unitArgs = IF w = 0 THEN <<>> ELSE PassedArgs(a)]

\* measure(label, fn, onError?), measure.assert(label, fn) and an invocation of
\* a function made by measure.wrap(label, fn), on instance i.
Measure(i, l, t, h, via) ==
    /\ syncStack = <<>>
    /\ via # "measure" => h = "none" /\ t = 0
    /\ i # "global" => h = "none" /\ t = 0 /\ via # "assert"
    /\ Spend(2 + Bit(Shaped(i, t, h, via)))
    /\ \E w \in WrappersFor(i, "async", l, via), a \in ArgsFor(via) :
           StartAsync(Invoked(NewCall(i, "async", 0, <<toAlpha(counter[i])>>, 0, l, t, h,
                                      via # "wrap", via, nOps[i], Shaped(i, t, h, via)),
                              w, a))
    /\ BumpRoot(i)
    /\ UNCHANGED <<lastError, silent, logger, syncStack, retries, batches, epoch, wraps, alphaVars, metaVars, limVars, cfgVars>>

\* The unit of async call c calls its resolver with a label and a unit.
SpawnChild(p, l, t, h) ==
    /\ syncStack = <<>>
    /\ calls[p].flavor = "async" /\ calls[p].unit = "running" /\ calls[p].takesM
    /\ Spend(2 + Bit(Shaped("global", t, h, "measure")))
    /\ LET rec == NewCall(calls[p].inst, "async", p, ChildChain(calls[p]),
                          ChildDepth(calls[p].depth), l, t, h, TRUE, "measure", -1,
                          Shaped("global", t, h, "measure"))
       IN /\ calls' = Append([calls EXCEPT ![p].childCounter = @ + 1],
                             IF EmitThrows THEN Unstarted(rec) ELSE rec)
          /\ log' = emit(log, Event("start", idStr(rec), l, rec.depth, NoErr, "",
                                    CallSrc(Len(calls) + 1), -1), PrefixOf(rec.inst))
    /\ UNCHANGED <<counter, nOps, lastError, silent, logger, syncStack, retries,
                   batches, epoch, wraps, alphaVars, metaVars, limVars, cfgVars>>

\* The children of call c whose promise has settled: those the unit of c can
\* have awaited so far.
SettledChildren(c) ==
    {d \in 1..Len(calls) : calls[d].parent = c /\ calls[d].st = "settled"}

\* The unit of async call c returns v (its promise resolves).  The wrapper, if
\* the race is still open, emits success and returns v.
UnitReturn(c, v) ==
    /\ syncStack = <<>>
    /\ calls[c].flavor = "async" /\ calls[c].unit = "running"
    /\ Spend(Bit(v = Null /\ ~calls[c].shaped))
    /\ LET rec == [calls[c] EXCEPT !.unit = "returned", !.unitVal = v,
                                   !.awaitable = SettledChildren(c)]
           won == emit(log, Event("success", idStr(rec), rec.label, rec.depth, NoErr,
                                  v, CallSrc(c), rec.op), PrefixOf(rec.inst))
       IN IF RaceOpen(rec)
          THEN IF EmitThrows
               THEN \* the emit of the success event throws inside the try
                    \* block; the catch block emits an error event, which
                    \* throws again
                    /\ log' = emit(won, Event("error", idStr(rec), rec.label, rec.depth,
                                              LoggerErr, "", CallSrc(c), rec.op),
                                   PrefixOf(rec.inst))
                    /\ calls' = [calls EXCEPT ![c] = [Faulted(rec) EXCEPT
                                                          !.caught = LoggerErr]]
               ELSE /\ log' = won
                    /\ calls' = [calls EXCEPT ![c] = [rec EXCEPT !.st = "settled",
                                                                 !.endedBy = "return",
                                                                 !.outcome = ValueOutcome(v)]]
          ELSE /\ calls' = [calls EXCEPT ![c] = rec]
               /\ UNCHANGED log
    /\ UNCHANGED <<counter, nOps, lastError, silent, logger, syncStack, retries,
                   batches, epoch, wraps, alphaVars, metaVars, limVars, cfgVars>>

\* The unit of async call c throws or rejects with a fresh error.
UnitThrow(c) ==
    /\ syncStack = <<>>
    /\ calls[c].flavor = "async" /\ calls[c].unit = "running"
    /\ LET rec == [calls[c] EXCEPT !.unit = "threw", !.thrown = UnitErr(c),
                                   !.awaitable = SettledChildren(c)]
       IN IF RaceOpen(rec)
          THEN Catch(c, [rec EXCEPT !.endedBy = "throw"], UnitErr(c))
          ELSE /\ calls' = [calls EXCEPT ![c] = rec]
               /\ UNCHANGED <<log, lastError>>
    /\ UNCHANGED <<counter, nOps, silent, logger, syncStack, retries,
                   batches, work, epoch, wraps, alphaVars, metaVars, limVars, cfgVars>>

\* The unit of async call p awaits its child c, whose promise rejected, and
\* does not catch: the unit rejects with the child's error.
ChildRejects(p, c) ==
    /\ syncStack = <<>>
    /\ calls[c].parent = p /\ calls[c].outcome.kind = "reject"
    /\ calls[p].flavor = "async" /\ calls[p].unit = "running"
    /\ LET e == calls[c].outcome.err
           rec == [calls[p] EXCEPT !.unit = "threw", !.thrown = e, !.killedBy = c,
                                   !.awaitable = SettledChildren(p)]
       IN IF RaceOpen(rec)
          THEN Catch(p, [rec EXCEPT !.endedBy = "throw"], e)
          ELSE /\ calls' = [calls EXCEPT ![p] = rec]
               /\ UNCHANGED <<log, lastError>>
    /\ UNCHANGED <<counter, nOps, silent, logger, syncStack, retries,
                   batches, work, epoch, wraps, alphaVars, metaVars, limVars, cfgVars>>

\* The timer of call c fires (it is never cleared): the race, if still open,
\* rejects with the Timeout error, which the catch block handles.
TimerFires(c) ==
    /\ syncStack = <<>>
    /\ calls[c].timer = "armed"
    /\ LET rec == [calls[c] EXCEPT !.timer = "fired"]
       IN IF RaceOpen(rec)
          THEN Catch(c, [rec EXCEPT !.endedBy = "timeout"], TimeoutErr(c, rec.timeout))
          ELSE /\ calls' = [calls EXCEPT ![c] = rec]
               /\ UNCHANGED <<log, lastError>>
    /\ UNCHANGED <<counter, nOps, silent, logger, syncStack, retries,
                   batches, work, epoch, wraps, alphaVars, metaVars, limVars, cfgVars>>

\* measure.assert resumes after `await measureFn(...)`: a null result raises
\* an error whose cause is _lastError, which is then cleared.
AssertMessage(flavor, label) ==
    (IF flavor = "async" THEN "measure.assert" ELSE "measureSync.assert")
        \o ": \"" \o label \o "\" failed"

AssertResumes(c) ==
    /\ syncStack = <<>>
    /\ calls[c].flavor = "async" /\ calls[c].assertSt = "waiting" /\ calls[c].st = "settled"
    /\ IF calls[c].outcome = ValueOutcome(Null)
       THEN /\ calls' = [calls EXCEPT ![c].assertSt = "raised",
                                      ![c].assertCause = lastError[calls[c].inst],
                                      ![c].assertMsg = AssertMessage("async", calls[c].label)]
            /\ lastError' = [lastError EXCEPT ![calls[c].inst] = NoErr]
       ELSE /\ calls' = [calls EXCEPT ![c].assertSt =
                             IF calls[c].outcome.kind = "reject" THEN "aborted"
                             ELSE "returned"]
            /\ UNCHANGED lastError
    /\ UNCHANGED <<counter, nOps, log, silent, logger, syncStack, retries,
                   batches, work, epoch, wraps, alphaVars, metaVars, limVars, cfgVars>>

\* measure.timed resumes after `await measureFn(...)`: the clock is read
\* again; a rejection of measureFn is not caught.
TimedResumes(c) ==
    /\ syncStack = <<>>
    /\ calls[c].flavor = "async" /\ calls[c].timedSt = "waiting" /\ calls[c].st = "settled"
    /\ calls' = [calls EXCEPT ![c] =
                    IF calls[c].outcome.kind = "reject"
                    THEN [calls[c] EXCEPT !.timedSt = "aborted"]
                    ELSE [calls[c] EXCEPT
                              !.timedSt = "returned",
                              !.timedOut = TimedResult(calls[c].outcome.val,
                                                       calls[c].timedStart, Now(log))]]
    /\ UNCHANGED <<counter, nOps, lastError, log, silent, logger, syncStack, retries,
                   batches, work, epoch, wraps, alphaVars, metaVars, limVars, cfgVars>>

\* ------------------------------------------------------- the sync wrapper
\* A slip: the outermost call is taken for the running one.
TopOutermost == syncStack[1]

Top == syncStack[Len(syncStack)]
Pop == SubSeq(syncStack, 1, Len(syncStack) - 1)

\* A slip: the sync wrapper announces every call, as the async one does.
hasNestedAlways(rec) == TRUE

\* const hasNested = fnInternal.length > 0
hasNested(rec) == rec.takesM

\* _measureInternalSync up to the invocation of the unit: a start event only
\* when the unit declares a parameter (fnInternal.length > 0).
StartSync(cs, rec) ==
    /\ calls' = Append(cs, IF hasNested(rec) /\ EmitThrows THEN Unstarted(rec) ELSE rec)
    /\ syncStack' = IF hasNested(rec) /\ EmitThrows THEN syncStack
                    ELSE Append(syncStack, Len(cs) + 1)
    /\ log' = IF hasNested(rec)
              THEN emit(log, Event("start", idStr(rec), rec.label, rec.depth, NoErr, "",
                                   CallSrc(Len(cs) + 1), rec.op), PrefixOf(rec.inst))
              ELSE log

\* measureSync(label, fn), measureSync.assert(label, fn) and an invocation of a
\* function made by measureSync.wrap(label, fn), on instance i.
MeasureSync(i, l, tm, via) ==
    /\ syncStack = <<>>
    /\ via = "wrap" => ~tm
    /\ i # "global" => via # "assert"
    /\ Spend(2 + Bit(Shaped(i, 0, "none", via)))
    /\ \E w \in WrappersFor(i, "sync", l, via), a \in ArgsFor(via) :
           StartSync(calls, Invoked(NewCall(i, "sync", 0, <<toAlpha(counter[i])>>, 0, l, 0,
                                            "none", tm, via, nOps[i],
                                            Shaped(i, 0, "none", via)),
                                    w, a))
    /\ BumpRoot(i)
    /\ UNCHANGED <<lastError, silent, logger, retries, batches, epoch, wraps, alphaVars, metaVars, limVars, cfgVars>>

\* The running sync unit calls its resolver with a label and a unit.
SyncChild(l, tm) ==
    /\ syncStack # <<>>
    /\ calls[Top].takesM
    /\ Spend(2)
    /\ LET p == Top
           rec == NewCall(calls[p].inst, "sync", p, ChildChain(calls[p]),
                          ChildDepth(calls[p].depth), l, 0, "none", tm, "measure", -1, FALSE)
       IN StartSync([calls EXCEPT ![p].childCounter = @ + 1], rec)
    /\ UNCHANGED <<counter, nOps, lastError, silent, logger, retries, batches, epoch, wraps, alphaVars, metaVars, limVars, cfgVars>>

\* measureSync.timed after measureSyncFn returned: the clock is read again.
SyncTimed(rec, end) ==
    [rec EXCEPT !.timedSt = "returned",
                !.timedOut = TimedResult(rec.outcome.val, rec.timedStart, end)]

\* measureSync.assert after measureSyncFn returned: a null result raises an
\* error whose cause is _lastError, which is then cleared.  le is _lastError
\* as the wrapper left it.
SyncAssert(c, rec, le) ==
    IF rec.via = "timed"
    THEN /\ calls' = [calls EXCEPT ![c] = SyncTimed(rec, Now(log'))]
         /\ lastError' = le
    ELSE IF rec.via # "assert"
    THEN /\ calls' = [calls EXCEPT ![c] = rec]
         /\ lastError' = le
    ELSE IF rec.outcome = ValueOutcome(Null)
         THEN /\ calls' = [calls EXCEPT ![c] = [rec EXCEPT
                               !.assertSt = "raised",
                               !.assertCause = le[rec.inst],
                               !.assertMsg = AssertMessage("sync", rec.label)]]
              /\ lastError' = [le EXCEPT ![rec.inst] = NoErr]
         ELSE /\ calls' = [calls EXCEPT ![c] = [rec EXCEPT !.assertSt = "returned"]]
              /\ lastError' = le

\* The running sync unit returns v.  When the emit of the success event
\* throws, the catch block emits an error event, which throws again.
SyncReturn(v) ==
    /\ syncStack # <<>>
    /\ Spend(Bit(v = Null /\ ~calls[Top].shaped))
    /\ LET c == Top
           rec == [calls[c] EXCEPT !.unit = "returned", !.unitVal = v, !.st = "settled",
                                   !.endedBy = "return", !.outcome = ValueOutcome(v)]
           won == emit(log, Event("success", idStr(rec), rec.label, rec.depth, NoErr, v,
                                  CallSrc(c), rec.op), PrefixOf(rec.inst))
       IN IF EmitThrows
          THEN /\ log' = emit(won, Event("error", idStr(rec), rec.label, rec.depth,
                                         LoggerErr, "", CallSrc(c), rec.op),
                              PrefixOf(rec.inst))
               /\ calls' = [calls EXCEPT ![c] = [Faulted(rec) EXCEPT !.caught = LoggerErr]]
               /\ UNCHANGED lastError
          ELSE /\ log' = won
               /\ SyncAssert(c, rec, lastError)
    /\ syncStack' = Pop
    /\ UNCHANGED <<counter, nOps, silent, logger, retries, batches, epoch, wraps, alphaVars, metaVars, limVars, cfgVars>>

\* The running sync unit throws a fresh error: the catch block of
\* _measureInternalSync.
SyncThrow ==
    /\ syncStack # <<>>
    /\ LET c == Top
           e == UnitErr(c)
           rec == [calls[c] EXCEPT !.unit = "threw", !.thrown = e, !.st = "settled",
                                   !.endedBy = "throw", !.caught = e,
                                   !.outcome = ValueOutcome(Null)]
       IN /\ log' = emit(log, Event("error", idStr(rec), rec.label, rec.depth, e, "",
                                    CallSrc(c), rec.op), PrefixOf(rec.inst))
          /\ IF EmitThrows
             THEN /\ calls' = [calls EXCEPT ![c] = Faulted(rec)]
                  /\ UNCHANGED lastError
             ELSE SyncAssert(c, rec, [lastError EXCEPT ![rec.inst] = e])
    /\ syncStack' = Pop
    /\ UNCHANGED <<counter, nOps, silent, logger, retries, batches, work,
                   epoch, wraps, alphaVars, metaVars, limVars, cfgVars>>

\* ------------------------------------------------------------ label-only calls
\* measure(label) and measureSync(label): one id of the root counter, one
\* annotation event.
Annotate(i, l) ==
    /\ syncStack = <<>>
    /\ Spend(2 + Bit(i # "global"))
    /\ log' = emit(log, Event("annotation", toAlpha(counter[i]), l, 0, NoErr, "",
                              TopSrc, nOps[i]), PrefixOf(i))
    /\ BumpRoot(i)
    /\ UNCHANGED <<lastError, silent, logger, calls, syncStack, retries, batches, epoch, wraps, alphaVars, metaVars, limVars, cfgVars>>

\* The resolver of call p called with a label only: an annotation event under
\* fullIdChain.join('-'), the id of p itself; childCounterRef is not touched.
ChildAnnotate(p, l) ==
    /\ calls[p].unit = "running" /\ calls[p].takesM
    /\ IF syncStack = <<>> THEN calls[p].flavor = "async" ELSE p = Top
    /\ Spend(2)
    /\ log' = emit(log, Event("annotation", Join(calls[p].chain), l, ChildDepth(calls[p].depth),
                              NoErr, "", CallSrc(p), -1), PrefixOf(calls[p].inst))
    /\ UNCHANGED <<counter, nOps, lastError, silent, logger, calls, syncStack,
                   retries, batches, epoch, wraps, alphaVars, metaVars, limVars, cfgVars>>

\* A slip: the reset of a scope reaches every counter.
ResetCounterAll(i) ==
    /\ syncStack = <<>>
    /\ Spend(2)
    /\ counter' = [j \in Inst |-> 0]
    /\ nOps' = [nOps EXCEPT ![i] = 0]
    /\ epoch' = [epoch EXCEPT ![i] = @ + 1]
    /\ UNCHANGED <<lastError, silent, logger, calls, syncStack, retries, batches,
                   log, wraps, alphaVars, metaVars, limVars, cfgVars>>

\* resetCounter() of the default instance, or of a scope.
ResetCounter(i) ==
    /\ syncStack = <<>>
    /\ Spend(2)
    /\ counter' = [counter EXCEPT ![i] = 0]
    /\ nOps' = [nOps EXCEPT ![i] = 0]
    /\ epoch' = [epoch EXCEPT ![i] = @ + 1]
    /\ UNCHANGED <<lastError, silent, logger, calls, syncStack, retries, batches,
                   log, wraps, alphaVars, metaVars, limVars, cfgVars>>

\* --------------------------------------------------------------------- wrap
\* A slip: the id is taken when the function is wrapped.
WrapRootEager(n) == n + 1

\* The root counter after measure.wrap or measureSync.wrap returned: wrap only
\* builds the closure.
WrapRoot(n) == n

\* measure.wrap(label, fn) (flavor "async") or measureSync.wrap(label, fn)
\* (flavor "sync") on instance i.
Wrap(i, flavor, l) ==
    /\ syncStack = <<>>
    /\ Spend(2 + Bit(i # "global"))
    /\ counter' = [counter EXCEPT ![i] = WrapRoot(counter[i])]
    /\ UNCHANGED <<nOps, lastError, silent, logger, calls, syncStack, retries, batches,
                   log, epoch, alphaVars, metaVars, limVars, cfgVars>>
    /\ wraps' = Append(wraps, [inst |-> i, flavor |-> flavor, label |-> l,
                               rootBefore |-> counter[i], rootAfter |-> counter'[i],
                               logBefore |-> Len(log), logAfter |-> Len(log')])

\* ---------------------------------------------------------------- configure
\* The options of a configure call that touch the emitter; "keep" stands for
\* an option left undefined.
SilentOpts == {"keep", "true", "false"}
LoggerOpts == {"keep", "none", "sink", "throws"}

\* configure({silent, logger}): each option given replaces the setting.
Configure(so, lo) ==
    /\ syncStack = <<>>
    /\ so # "keep" \/ lo # "keep"
    /\ Spend(2)
    /\ silent' = IF so # "keep" THEN so = "true" ELSE silent
    /\ logger' = IF lo # "keep" THEN lo ELSE logger
    /\ silent' # silent \/ logger' # logger
    /\ UNCHANGED <<counter, nOps, lastError, calls, syncStack, retries, batches, log,
                   epoch, wraps, alphaVars, metaVars, limVars, cfgVars>>

\* ------------------------------------------------------------- measure.retry
AttemptErr(r, attempt) ==
    [kind |-> "attempt", of |-> r, msg |-> "attempt " \o ToString(attempt) \o " failed"]

\* `${lbl} [${attempt}/${attempts}]`
AttemptLabel(lbl, attempt, attempts) ==
    lbl \o " [" \o ToString(attempt) \o "/" \o ToString(attempts) \o "]"

\* Math.pow(backoff, i) on non-negative integers.
RECURSIVE Pow(_, _)
Pow(b, e) == IF e = 0 THEN 1 ELSE b * Pow(b, e - 1)

\* A slip: the exponent is the attempt number, not the loop index.
WaitAfterOneBased(delay, backoff, i) == delay * Pow(backoff, i + 1)

\* setTimeout(r, delay * Math.pow(backoff, i)) for loop index i (attempt i + 1).
WaitAfter(delay, backoff, i) == delay * Pow(backoff, i)

\* A slip: one attempt too many.
MoreAttemptsOffByOne(attempt, attempts) == attempt <= attempts

\* Whether the loop goes round again after `attempt` failed: i++, i < attempts.
MoreAttempts(attempt, attempts) == attempt < attempts

\* The head of the loop body of measure.retry for loop index rec.i: the next
\* root id, and a start event under it.  What follows is `await fn()`.
RetryAttempt(r, rec) ==
    /\ retries' = [retries EXCEPT ![r] =
                       IF EmitThrows
                       THEN [rec EXCEPT !.st = "done",
                                        !.outcome = RejectOutcome(LoggerErr),
                                        !.ids = Append(@, toAlpha(counter[rec.inst])),
                                        !.eps = Append(@, epoch[rec.inst])]
                       ELSE [rec EXCEPT !.st = "running",
                                        !.invoked = @ + 1,
                                        !.ids = Append(@, toAlpha(counter[rec.inst])),
                                        !.eps = Append(@, epoch[rec.inst])]]
    /\ log' = emit(log, Event("start", toAlpha(counter[rec.inst]),
                              AttemptLabel(rec.label, rec.i + 1, rec.attempts), 0, NoErr, "",
                              RetrySrc(r), nOps[rec.inst]), PrefixOf(rec.inst))
    /\ BumpRoot(rec.inst)

\* measure.retry(label, {attempts, delay, backoff}, fn) on instance i, up to
\* the first `await fn()`.
RetryStart(i, l, n, d, b) ==
    /\ syncStack = <<>>
    /\ Spend(2 * n + Bit(i # "global"))
    /\ LET r == Len(retries) + 1
           rec == [inst |-> i, label |-> l, attempts |-> n, delay |-> d, backoff |-> b,
                   i |-> 0, st |-> "running", invoked |-> 0, ids |-> <<>>, eps |-> <<>>,
                   waits |-> <<>>, outcome |-> NoOutcome]
       IN /\ retries' = Append(retries,
                               IF EmitThrows
                               THEN [rec EXCEPT !.st = "done",
                                                !.outcome = RejectOutcome(LoggerErr),
                                                !.ids = <<toAlpha(counter[i])>>,
                                                !.eps = <<epoch[i]>>]
                               ELSE [rec EXCEPT !.invoked = 1,
                                                !.ids = <<toAlpha(counter[i])>>,
                                                !.eps = <<epoch[i]>>])
          /\ log' = emit(log, Event("start", toAlpha(counter[i]), AttemptLabel(l, 1, n), 0,
                                    NoErr, "", RetrySrc(r), nOps[i]), PrefixOf(i))
    /\ BumpRoot(i)
    /\ UNCHANGED <<lastError, silent, logger, calls, syncStack, batches, epoch, wraps, alphaVars, metaVars, limVars, cfgVars>>

\* The unit of the running attempt returns v: success event, retry returns v.
RetryUnitReturn(r, v) ==
    /\ syncStack = <<>>
    /\ retries[r].st = "running"
    /\ Spend(Bit(v = Null))
    /\ LET rec == retries[r]
           won == emit(log, Event("success", rec.ids[rec.i + 1],
                                  AttemptLabel(rec.label, rec.i + 1, rec.attempts), 0,
                                  NoErr, v, RetrySrc(r), -1), PrefixOf(rec.inst))
       IN IF EmitThrows
          THEN \* the emit of the success event throws inside the try block;
               \* the emit of the catch block throws out of retry
               /\ log' = emit(won, Event("error", rec.ids[rec.i + 1],
                                         AttemptLabel(rec.label, rec.i + 1, rec.attempts),
                                         0, LoggerErr, "", RetrySrc(r), -1),
                              PrefixOf(rec.inst))
               /\ retries' = [retries EXCEPT ![r].st = "done",
                                             ![r].outcome = RejectOutcome(LoggerErr)]
          ELSE /\ log' = won
               /\ retries' = [retries EXCEPT ![r].st = "done",
                                             ![r].outcome = ValueOutcome(v)]
    /\ UNCHANGED <<counter, nOps, lastError, silent, logger, calls, syncStack, batches,
                   epoch, wraps, alphaVars, metaVars, limVars, cfgVars>>

\* The unit of the running attempt throws: error event; when attempts remain,
\* a timer of delay * backoff^i; otherwise the loop ends and retry returns null.
RetryUnitThrow(r) ==
    /\ syncStack = <<>>
    /\ retries[r].st = "running"
    /\ LET rec == retries[r]
           attempt == rec.i + 1
       IN /\ log' = emit(log, Event("error", rec.ids[attempt],
                                    AttemptLabel(rec.label, attempt, rec.attempts), 0,
                                    AttemptErr(r, attempt), "", RetrySrc(r), -1),
                         PrefixOf(rec.inst))
          /\ retries' = [retries EXCEPT ![r] =
                IF EmitThrows
                THEN [rec EXCEPT !.st = "done", !.outcome = RejectOutcome(LoggerErr)]
                ELSE IF MoreAttempts(attempt, rec.attempts)
                THEN [rec EXCEPT !.st = "waiting",
                                 !.waits = Append(@, WaitAfter(rec.delay, rec.backoff, rec.i))]
                ELSE [rec EXCEPT !.st = "done", !.i = @ + 1,
                                 !.outcome = ValueOutcome(Null)]]
    /\ UNCHANGED <<counter, nOps, lastError, silent, logger, calls, syncStack, batches,
                   work, epoch, wraps, alphaVars, metaVars, limVars, cfgVars>>

\* The delay timer fires: i++ and the next attempt starts.
RetryWake(r) ==
    /\ syncStack = <<>>
    /\ retries[r].st = "waiting"
    /\ RetryAttempt(r, [retries[r] EXCEPT !.i = @ + 1])
    /\ UNCHANGED <<lastError, silent, logger, calls, syncStack, batches, work, epoch, wraps, alphaVars, metaVars, limVars, cfgVars>>

\* ------------------------------------------------------------- measure.batch
\* opts?.every ?? Math.max(1, Math.ceil(total / 5)); every = 0 stands for an
\* absent option.
EveryOf(every, total) ==
    IF every # 0 THEN every
    ELSE IF (total + 4) \div 5 > 1 THEN (total + 4) \div 5 ELSE 1

\* A slip: the item count is left out of the label.
BatchLabelBare(lbl, total) == lbl

\* `${lbl} (${total} items)`
BatchLabel(lbl, total) == lbl \o " (" \o ToString(total) \o " items)"

\* `${i + 1}/${total} (...)`: the elapsed time and the rate are left out.
ProgressLabel(done, total) == ToString(done) \o "/" \o ToString(total)

\* results.filter(r => r !== null).length
CountNonNull(results) == Cardinality({k \in 1..Len(results) : results[k] # Null})

\* `${count}/${total} ok`
TallyOf(results, total) ==
    ToString(CountNonNull(results)) \o "/" \o ToString(total) \o " ok"

\* A slip: nothing is pushed for an item whose unit threw.
ItemPushDropping(results, oc) == IF oc = "throw" THEN results ELSE Append(results, oc)

\* try { results.push(await fn(items[i], i)) } catch { results.push(null) }
ItemPush(results, oc) == Append(results, IF oc = "throw" THEN Null ELSE oc)

\* A slip: the last item is announced too.
ProgressDueToEnd(done, every, total) == done % every = 0

\* if ((i + 1) % every === 0 && i + 1 < total)
ProgressDue(done, every, total) == done % every = 0 /\ done < total

\* The end of measure.batch: the success event with the tally.
BatchFinish(lg, b, rec) ==
    emit(lg, Event("success", rec.id, BatchLabel(rec.label, rec.total), 0, NoErr,
                   TallyOf(rec.results, rec.total), BatchSrc(b), -1), PrefixOf(rec.inst))

\* measure.batch(label, items, fn, {every}) on instance i, up to the first
\* `await fn(items[0], 0)`; with no items, to its end.
BatchStart(i, l, total, every) ==
    /\ syncStack = <<>>
    /\ Spend((IF total = 0 THEN 2 ELSE 2 * total) + Bit(i # "global") + Bit(every # 0))
    /\ LET b == Len(batches) + 1
           rec == [inst |-> i, label |-> l, total |-> total,
                   every |-> EveryOf(every, total), id |-> toAlpha(counter[i]),
                   ep |-> epoch[i],
                   i |-> 0, results |-> <<>>, threw |-> <<>>, outs |-> <<>>,
                   fault |-> EmitThrows,      \* an emit threw out of the batch
                   st |-> IF total = 0 \/ EmitThrows THEN "done" ELSE "running"]
           started == emit(log, Event("start", rec.id, BatchLabel(l, total), 0, NoErr, "",
                                      BatchSrc(b), nOps[i]), PrefixOf(i))
       IN /\ batches' = Append(batches, rec)
          /\ log' = IF total = 0 /\ ~EmitThrows THEN BatchFinish(started, b, rec)
                    ELSE started
    /\ BumpRoot(i)
    /\ UNCHANGED <<lastError, silent, logger, calls, syncStack, retries, epoch, wraps, alphaVars, metaVars, limVars, cfgVars>>

\* The unit of item rec.i returns v or throws (oc = "throw"): the result or
\* null is pushed, a progress annotation is emitted when due, and the loop
\* goes on to the next item or the batch ends.
BatchItemDone(b, oc) ==
    /\ syncStack = <<>>
    /\ batches[b].st = "running"
    /\ Spend(Bit(oc = Null))
    /\ LET rec == batches[b]
           done == rec.i + 1
           pushed == [rec EXCEPT !.results = ItemPush(@, oc),
                                 !.threw = Append(@, oc = "throw"),
                                 !.outs = Append(@, oc)]
           due == ProgressDue(done, rec.every, rec.total)
           progressed ==
               IF due
               THEN emit(log, Event("annotation", rec.id, ProgressLabel(done, rec.total), 0,
                                    NoErr, "", BatchSrc(b), -1), PrefixOf(rec.inst))
               ELSE log
       IN IF EmitThrows /\ (due \/ done >= rec.total)
          THEN \* the emit of the progress annotation or of the final success
               \* event throws out of batch
               /\ batches' = [batches EXCEPT ![b] = [pushed EXCEPT !.i = done,
                                                                   !.st = "done",
                                                                   !.fault = TRUE]]
               /\ log' = IF due THEN progressed ELSE BatchFinish(progressed, b, pushed)
          ELSE IF done < rec.total
          THEN /\ batches' = [batches EXCEPT ![b] = [pushed EXCEPT !.i = done]]
               /\ log' = progressed
          ELSE /\ batches' = [batches EXCEPT ![b] = [pushed EXCEPT !.i = done, !.st = "done"]]
               /\ log' = BatchFinish(progressed, b, pushed)
    /\ UNCHANGED <<counter, nOps, lastError, silent, logger, calls, syncStack, retries,
                   epoch, wraps, alphaVars, metaVars, limVars, cfgVars>>

NextAsync ==
    \/ \E i \in Inst, l \in Labels, t \in Timeouts, h \in Handlers,
          via \in Vias : Measure(i, l, t, h, via)
    \/ \E p \in 1..Len(calls), l \in Labels, t \in Timeouts, h \in Handlers :
          SpawnChild(p, l, t, h)
    \/ \E c \in 1..Len(calls), v \in UnitVals : UnitReturn(c, v)
    \/ \E c \in 1..Len(calls) : UnitThrow(c)
    \/ \E p \in 1..Len(calls), c \in 1..Len(calls) : ChildRejects(p, c)
    \/ \E c \in 1..Len(calls) : TimerFires(c)
    \/ \E c \in 1..Len(calls) : AssertResumes(c)
    \/ \E c \in 1..Len(calls) : TimedResumes(c)

NextSync ==
    \/ \E i \in Inst, l \in Labels, tm \in BOOLEAN, via \in Vias :
          MeasureSync(i, l, tm, via)
    \/ \E l \in Labels, tm \in BOOLEAN : SyncChild(l, tm)
    \/ \E v \in UnitVals : SyncReturn(v)
    \/ SyncThrow

NextRetry ==
    \/ \E i \in Inst, l \in Labels, n \in 1..(MaxWork \div 2), d \in Delays, b \in Backoffs :
          RetryStart(i, l, n, d, b)
    \/ \E r \in 1..Len(retries), v \in UnitVals : RetryUnitReturn(r, v)
    \/ \E r \in 1..Len(retries) : RetryUnitThrow(r)
    \/ \E r \in 1..Len(retries) : RetryWake(r)

NextBatch ==
    \/ \E i \in Inst, l \in Labels, total \in 0..(MaxWork \div 2), every \in EveryOpts :
          BatchStart(i, l, total, every)
    \/ \E b \in 1..Len(batches), oc \in UnitVals \cup {"throw"} : BatchItemDone(b, oc)

NextOther ==
    \/ \E i \in Inst, flavor \in {"async", "sync"}, l \in Labels : Wrap(i, flavor, l)
    \/ \E so \in SilentOpts, lo \in LoggerOpts : Configure(so, lo)
    \/ \E i \in Inst, l \in Labels : Annotate(i, l)
    \/ \E p \in 1..Len(calls), l \in Labels : ChildAnnotate(p, l)
    \/ \E i \in Inst : ResetCounter(i)

Next == NextAsync \/ NextSync \/ NextRetry \/ NextBatch \/ NextOther

Spec == Init /\ [][Next]_vars

\* ------------------------------------------------------ toAlpha on its own
\* The encoder applied to two inputs drawn from 0..MaxAlpha; the engine stays
\* as it is at module load.
InitAlpha ==
    /\ InitEngine
    /\ InitMetaIdle
    /\ counter["global"] = 0
    /\ alphaPc = "in"
    /\ alphaN \in 0..MaxAlpha
    /\ alphaM \in 0..MaxAlpha
    /\ alphaTokN = <<>>
    /\ alphaTokM = <<>>

AlphaEncode ==
    /\ alphaPc = "in"
    /\ alphaTokN' = toAlpha(alphaN)
    /\ alphaTokM' = toAlpha(alphaM)
    /\ alphaPc' = "out"
    /\ UNCHANGED <<engineVars, alphaN, alphaM, metaVars, limVars, cfgVars>>

NextAlpha == AlphaEncode

SpecAlpha == InitAlpha /\ [][NextAlpha]_vars

\* ------------------------------------------------ the id scheme on its own
\* The steps of the default instance that take an id, and its reset, used
\* plainly (no timeout, no handler, the default emitter) and followed five
\* operations deep, further than Spec follows the whole engine.  Async units and
\* batch items stay pending: their completion takes no id.
InitIds ==
    /\ counter = [i \in Inst |-> 0]
    /\ nOps = counter
    /\ work = -5
    /\ InitLoaded
    /\ InitAlphaIdle
    /\ InitMetaIdle

NextIds ==
    \/ \E l \in Labels : Measure("global", l, 0, "none", "measure")
    \/ \E p \in 1..Len(calls), l \in Labels : SpawnChild(p, l, 0, "none")
    \/ \E l \in Labels : MeasureSync("global", l, TRUE, "measure")
    \/ \E l \in Labels : SyncChild(l, FALSE)
    \/ SyncReturn("ok")
    \/ \E l \in Labels, d \in Delays, b \in Backoffs : RetryStart("global", l, 2, d, b)
    \/ \E r \in 1..Len(retries) : RetryUnitThrow(r)
    \/ \E r \in 1..Len(retries) : RetryWake(r)
    \/ \E l \in Labels : BatchStart("global", l, 1, 0)
    \/ ResetCounter("global")

SpecIds == InitIds /\ [][NextIds]_vars

\* -------------------------------------------------- extractMeta on its own
\* The attribute names a label object may carry: the four the engine reads
\* itself and two of the caller's.
AttrNames == {"label", "budget", "timeout", "maxResultLength", "table", "userId"}

\* The names extractMeta deletes from its copy of the label.
Deleted == {"label", "budget", "maxResultLength"}

extractMeta(actionInternal) ==
    IF ~actionInternal.obj THEN NoMeta
    ELSE LET details == actionInternal.keys \ Deleted
         IN  IF details = {} THEN NoMeta
             ELSE [present |-> TRUE, keys |-> details]

InitMeta ==
    /\ InitEngine
    /\ InitAlphaIdle
    /\ counter["global"] = 0
    /\ metaPc = "in"
    /\ metaIn \in {PlainLabel} \cup {ObjectLabel(ks) : ks \in SUBSET AttrNames}
    /\ metaOut = NoMeta

\* The meta field of the start event of a call with this label.
MetaOfStart ==
    /\ metaPc = "in"
    /\ metaOut' = extractMeta(metaIn)
    /\ metaPc' = "start"
    /\ UNCHANGED <<engineVars, alphaVars, metaIn, limVars, cfgVars>>

\* The meta field of the annotation event of a nested call with this label
\* and no unit.
MetaOfAnnotation ==
    /\ metaPc = "in"
    /\ metaOut' = extractMeta(metaIn)
    /\ metaPc' = "annotation"
    /\ UNCHANGED <<engineVars, alphaVars, metaIn, limVars, cfgVars>>

NextMeta == MetaOfStart \/ MetaOfAnnotation

SpecMeta == InitMeta /\ [][NextMeta]_vars

\* ------------------------------------------- budget, timeout, maxResultLength
\* The three options a label object may carry, followed through a tree of
\* calls on their own: who calls whom, what each label says, and what each
\* terminal event carries.  An option is undefined or a number.
Undef == [has |-> FALSE, v |-> 0]
Num(n) == [has |-> TRUE, v |-> n]

\* 'job', and { label: 'job', ... } with some of the three attributes.
StringLabel ==
    [obj |-> FALSE, maxResultLength |-> Undef, budget |-> Undef, timeout |-> Undef]
OptLabel(m, b, t) == [obj |-> TRUE, maxResultLength |-> m, budget |-> b, timeout |-> t]
LimLabels ==
    {StringLabel,
     OptLabel(Undef, Undef, Undef),
     OptLabel(Num(0), Undef, Undef),
     OptLabel(Num(5), Undef, Undef),
     OptLabel(Num(9), Num(50), Num(1500)),
     OptLabel(Num(9), Undef, Num(1500)),
     OptLabel(Undef, Num(50), Undef),
     OptLabel(Undef, Undef, Num(1500))}

extractBudget(actionInternal) ==
    IF ~actionInternal.obj THEN Undef ELSE actionInternal.budget

\* A slip: the budget is enforced, as a timeout, when there is no timeout.
extractTimeoutOrBudget(actionInternal) ==
    IF ~actionInternal.obj THEN Undef
    ELSE IF actionInternal.timeout.has THEN actionInternal.timeout
    ELSE actionInternal.budget

extractTimeout(actionInternal) ==
    IF ~actionInternal.obj THEN Undef ELSE actionInternal.timeout

extractMaxResultLength(actionInternal) ==
    IF ~actionInternal.obj THEN Undef ELSE actionInternal.maxResultLength

\* A slip: `localMaxLen || inheritedMaxLen`, which lets 0 fall through.
effectiveMaxLenFalsy(localMaxLen, inheritedMaxLen) ==
    IF localMaxLen.has /\ localMaxLen.v # 0 THEN localMaxLen ELSE inheritedMaxLen

\* const effectiveMaxLen = localMaxLen ?? inheritedMaxLen
effectiveMaxLen(localMaxLen, inheritedMaxLen) ==
    IF localMaxLen.has THEN localMaxLen ELSE inheritedMaxLen

\* The locals of _measureInternal / _measureInternalSync that the options
\* reach, the id chain, and what the wrapper returns.  Only the async wrapper
\* reads the timeout: `timeout && timeout > 0`.
LimCall(flavor, parent, chain, actionInternal, inheritedMaxLen) ==
    LET timeout == extractTimeout(actionInternal)
    IN [flavor |-> flavor, parent |-> parent, chain |-> chain, childCounter |-> 0,
        label |-> actionInternal,
        budget |-> extractBudget(actionInternal),
        maxLen |-> effectiveMaxLen(extractMaxResultLength(actionInternal), inheritedMaxLen),
        timer |-> IF flavor = "async" /\ timeout.has /\ timeout.v > 0
                  THEN "armed" ELSE "none",
        st |-> "pending", events |-> <<>>, outcome |-> NoOutcome]

\* { type, id: idStr, ..., budget, maxResultLength: effectiveMaxLen }
LimEvent(rec, type, err) ==
    [type |-> type, id |-> Join(rec.chain), err |-> err, budget |-> rec.budget,
     maxResultLength |-> rec.maxLen]

\* What follows is written on a sequence cs of such records, so that it can
\* be applied to the calls made and to the same calls made with other labels.
LimPending(cs) == {c \in 1..Len(cs) : cs[c].st = "pending"}
LimSyncBusy(cs) == \E c \in LimPending(cs) : cs[c].flavor = "sync"
LimInnermost(cs, c) == \A d \in LimPending(cs) : cs[d].parent # c
LimMayRun(cs, c) ==
    /\ c \in LimPending(cs)
    /\ IF cs[c].flavor = "sync" THEN LimInnermost(cs, c) ELSE ~LimSyncBusy(cs)

\* measure(label, fn) or measureSync(label, fn) when the root counter is at
\* n: no inheritedMaxLen is passed.
CanMeasure(cs) == Len(cs) < MaxWork \div 2 /\ ~LimSyncBusy(cs)
AfterMeasure(cs, n, flavor, l) == Append(cs, LimCall(flavor, 0, <<toAlpha(n)>>, l, Undef))

\* The resolver of call p is called with a unit: it passes on p's
\* effectiveMaxLen, and nothing else of p's options.
CanChild(cs, p) == Len(cs) < MaxWork \div 2 /\ LimMayRun(cs, p)
AfterChild(cs, p, l) ==
    Append([cs EXCEPT ![p].childCounter = @ + 1],
           LimCall(cs[p].flavor, p, ChildChain(cs[p]), l, cs[p].maxLen))

\* The unit of call c returns (ok) or throws, and the wrapper has not timed
\* out: the success or the error event, and the value or null.
AfterUnitEnds(cs, c, ok) ==
    [cs EXCEPT ![c].st = "ended",
               ![c].events = Append(@, LimEvent(cs[c], IF ok THEN "success" ELSE "error",
                                                IF ok THEN "" ELSE "unit")),
               ![c].outcome = ValueOutcome(IF ok THEN "ok" ELSE Null)]

\* The timer of call c fires first: the error event of the timeout, and null.
CanFire(cs, c) == c \in LimPending(cs) /\ ~LimSyncBusy(cs) /\ cs[c].timer = "armed"
AfterTimerFires(cs, c) ==
    [cs EXCEPT ![c].st = "ended", ![c].timer = "fired",
               ![c].events = Append(@, LimEvent(cs[c], "error", "timeout")),
               ![c].outcome = ValueOutcome(Null)]

LimMeasure(flavor, l) ==
    /\ CanMeasure(limCalls)
    /\ limCalls' = AfterMeasure(limCalls, counter["global"], flavor, l)
    /\ BumpRoot("global")
    /\ UNCHANGED <<lastError, silent, logger, calls, syncStack, retries, batches, log,
                   work, epoch, wraps, alphaVars, metaVars, cfgVars>>

LimChild(p, l) ==
    /\ CanChild(limCalls, p)
    /\ limCalls' = AfterChild(limCalls, p, l)
    /\ UNCHANGED <<engineVars, alphaVars, metaVars, cfgVars>>

LimUnitEnds(c, ok) ==
    /\ LimMayRun(limCalls, c)
    /\ limCalls' = AfterUnitEnds(limCalls, c, ok)
    /\ UNCHANGED <<engineVars, alphaVars, metaVars, cfgVars>>

LimTimerFires(c) ==
    /\ CanFire(limCalls, c)
    /\ limCalls' = AfterTimerFires(limCalls, c)
    /\ UNCHANGED <<engineVars, alphaVars, metaVars, cfgVars>>

NextLimits ==
    \/ \E flavor \in {"async", "sync"}, l \in LimLabels : LimMeasure(flavor, l)
    \/ \E p \in 1..Len(limCalls), l \in LimLabels : LimChild(p, l)
    \/ \E c \in 1..Len(limCalls), ok \in BOOLEAN : LimUnitEnds(c, ok)
    \/ \E c \in 1..Len(limCalls) : LimTimerFires(c)

\* Module load; the calls are followed in limCalls alone.
InitLimits == Init /\ counter["global"] = 0

SpecLimits == InitLimits /\ [][NextLimits]_vars

\* ------------------------------------------------------- configure, in full
\* The arguments of configure under test: each option absent or given.
OptsUnderTest ==
    [silent : {Absent(FALSE), Given(TRUE), Given(FALSE)},
     logger : {Absent("none"), Given("none"), Given("sink")},
     timestamps : {Absent(FALSE), Given(TRUE)},
     maxResultLength : {Absent(0), Given(5)},
     dotEndLabel : {Absent(FALSE), Given(FALSE)},
     dotChar : {Absent(""), Given("*")}]

\* A slip: the option is assigned whether or not it is present.
configuredAlways(current, o) == o.v

\* if (opts.X !== undefined) X = opts.X
configured(current, o) == IF o.has THEN o.v ELSE current

\* configure(opts), all six options.
ConfigureOpts(opts) ==
    /\ syncStack = <<>>
    /\ Spend(2)
    /\ silent' = configured(silent, opts.silent)
    /\ logger' = configured(logger, opts.logger)
    /\ rendering' =
          [timestamps |-> configured(rendering.timestamps, opts.timestamps),
           maxResultLen |-> configured(rendering.maxResultLen, opts.maxResultLength),
           dotEndLabel |-> configured(rendering.dotEndLabel, opts.dotEndLabel),
           dotChar |-> configured(rendering.dotChar, opts.dotChar)]
    /\ lastOpts' = [n |-> lastOpts.n + 1, opts |-> opts]
    /\ UNCHANGED <<counter, nOps, lastError, calls, syncStack, retries, batches, log,
                   epoch, wraps, alphaVars, metaVars, limVars>>

\* configure between measureSync calls of the default instance.
NextConfigure ==
    \/ \E opts \in OptsUnderTest : ConfigureOpts(opts)
    \/ \E l \in Labels, tm \in BOOLEAN : MeasureSync("global", l, tm, "measure")
    \/ \E v \in UnitVals : SyncReturn(v)
    \/ SyncThrow

InitConfigure == Init /\ counter["global"] = 0

SpecConfigure == InitConfigure /\ [][NextConfigure]_vars

\* ----------------------------------------------------------------- the claims
LetterIndex(ch) == CHOOSE k \in 1..26 : Letters[k] = ch

\* s comes before t among same-length strings, letter by letter.
LexBefore(s, t) ==
    \E k \in 1..Len(s) :
        /\ \A j \in 1..(k - 1) : s[j] = t[j]
        /\ LetterIndex(s[k]) < LetterIndex(t[k])

\* Length first, then lexicographic.
ShortlexBefore(s, t) ==
    Len(s) < Len(t) \/ (Len(s) = Len(t) /\ LexBefore(s, t))

IsToken(s) == Len(s) >= 1 /\ \A k \in 1..Len(s) : \E j \in 1..26 : Letters[j] = s[k]

\* The length a token for n must have if the 26 one-letter strings, the 676
\* two-letter strings and then the three-letter strings are to be used up in
\* turn, none skipped and none used twice.
BandLen(n) == IF n < 26 THEN 1 ELSE IF n < 702 THEN 2 ELSE 3

\* C8: toAlpha yields a result for every input; the result is a non-empty
\* string over a..z; smaller inputs give shortlex-smaller tokens (so distinct
\* inputs give distinct tokens); the tokens of each length are used up before
\* the next length begins (so every token is reached); 0..25 give a..z, 26
\* gives aa, 27 ab, 701 zz and 702 aaa.
C8_ToAlphaOrderedBijection ==
    /\ alphaPc = "in" => ENABLED AlphaEncode
    /\ alphaPc = "out" =>
        /\ IsToken(alphaTokN) /\ IsToken(alphaTokM)
        /\ alphaN < alphaM => ShortlexBefore(alphaTokN, alphaTokM)
        /\ alphaN # alphaM => alphaTokN # alphaTokM
        /\ alphaN = alphaM => alphaTokN = alphaTokM
        /\ Len(alphaTokN) = BandLen(alphaN)
        /\ alphaN <= 25 => alphaTokN = <<Letters[alphaN + 1]>>
        /\ alphaN = 0 => alphaTokN = <<"a">>
        /\ alphaN = 25 => alphaTokN = <<"z">>
        /\ alphaN = 26 => alphaTokN = <<"a", "a">>
        /\ alphaN = 27 => alphaTokN = <<"a", "b">>
        /\ alphaN = 701 => alphaTokN = <<"z", "z">>
        /\ alphaN = 702 => alphaTokN = <<"a", "a", "a">>

C8_Witness ==
    /\ alphaPc = "out"
    /\ alphaN = 701 /\ alphaM = 702
    /\ alphaTokN = <<"z", "z">> /\ alphaTokM = <<"a", "a", "a">>

\* The wrapper of call c was not left by an exception of emit: the sink, if
\* one is configured, returned each time this call handed it an event.
SinkHeld(c) == calls[c].endedBy # "emit"

\* The events call c emitted, and those of one type among some events.
CallEvents(c) == LET FromCall(e) == e.src = CallSrc(c) IN SelectSeq(log, FromCall)
RetryEvents(r) == LET FromRetry(e) == e.src = RetrySrc(r) IN SelectSeq(log, FromRetry)
OfType(evs, ty) == LET HasType(e) == e.type = ty IN SelectSeq(evs, HasType)
TimeoutEvents(c) == LET IsTimeout(e) == e.err.kind = "timeout" IN SelectSeq(CallEvents(c), IsTimeout)
Children(p) == {d \in 1..Len(calls) : calls[d].parent = p}

\* C1: a unit that throws or rejects, given to measure or measureSync without
\* a handler, makes the call return null, never throw or reject; given to
\* measure with a handler that returns normally, it makes the call resolve to
\* what the handler returned.  (The sink is taken to return; C17 is about one
\* that throws.)
C1_FailedUnitYieldsNullOrFallback ==
    \A c \in 1..Len(calls) :
        (calls[c].unit = "threw" /\ SinkHeld(c)) =>
            /\ calls[c].st = "settled"
            /\ calls[c].onErr = "none" => calls[c].outcome = ValueOutcome(Null)
            /\ (calls[c].flavor = "async" /\ calls[c].onErr = "returns") =>
                   calls[c].outcome = ValueOutcome(Fallback)

C1_Witness ==
    \E c \in 1..Len(calls), d \in 1..Len(calls) :
        /\ calls[c].flavor = "async" /\ calls[c].onErr = "returns"
        /\ calls[c].endedBy = "throw" /\ calls[c].outcome = ValueOutcome(Fallback)
        /\ calls[d].flavor = "sync" /\ calls[d].onErr = "none"
        /\ calls[d].endedBy = "throw" /\ calls[d].outcome = ValueOutcome(Null)

\* C2: when assert raises for a unit that threw e, the cause of the raised
\* error is e and its message names the label, whatever else ran on the
\* instance between the catch and the raise.
C2_AssertCauseIsOwnError ==
    \A c \in 1..Len(calls) :
        (calls[c].assertSt = "raised" /\ calls[c].unit = "threw") =>
            /\ calls[c].assertCause = calls[c].thrown
            /\ calls[c].assertMsg = AssertMessage(calls[c].flavor, calls[c].label)

C2_Witness ==
    \E c \in 1..Len(calls), d \in 1..Len(calls) :
        /\ c # d /\ calls[c].inst = calls[d].inst
        /\ calls[c].assertSt = "raised" /\ calls[c].thrown = UnitErr(c)
        /\ calls[c].assertCause = calls[d].thrown /\ calls[d].thrown = UnitErr(d)

\* C3: a handler that returns a rejecting promise leaves the call resolved to
\* null, not rejected.
C3_RejectingHandlerYieldsNull ==
    \A c \in 1..Len(calls) :
        (calls[c].flavor = "async" /\ calls[c].onErr = "rejects"
            /\ calls[c].endedBy \in {"throw", "timeout"}) =>
                calls[c].outcome = ValueOutcome(Null)

C3_Witness ==
    \E c \in 1..Len(calls) :
        /\ calls[c].flavor = "async" /\ calls[c].onErr = "rejects"
        /\ calls[c].endedBy = "throw"
        /\ calls[c].outcome = RejectOutcome(HandlerErr(c))
        /\ Len(OfType(CallEvents(c), "error")) = 1

C5_FailedChildLeavesParentRunning ==
    \A c \in 1..Len(calls) :
        LET p == calls[c].parent
        IN (p # 0 /\ calls[c].unit = "threw" /\ calls[c].onErr = "none"
                /\ SinkHeld(c)) =>
            /\ calls[c].outcome = ValueOutcome(Null)
            /\ calls[p].killedBy # c
            /\ (calls[p].unit = "returned" /\ calls[p].endedBy # "timeout"
                    /\ SinkHeld(p)) =>
                  LET wins == OfType(CallEvents(p), "success")
                  IN /\ Len(wins) = 1
                     /\ wins[1].result = calls[p].unitVal
                     /\ wins[1].id = idStr(calls[p])
                     /\ Len(OfType(CallEvents(p), "error")) = 0
                     /\ calls[p].outcome = ValueOutcome(calls[p].unitVal)

C5_Witness ==
    \E c \in 1..Len(calls) :
        LET p == calls[c].parent
        IN /\ p # 0 /\ calls[c].endedBy = "throw" /\ calls[c].onErr = "none"
           /\ calls[p].unit = "returned" /\ calls[p].unitVal = "ok"
           /\ calls[p].outcome = ValueOutcome("ok")
           /\ Len(OfType(CallEvents(p), "success")) = 1

\* C6: the root counter of an instance equals the number of top-level
\* operations invoked on it since its last reset, and the i-th of them
\* (counting from 0) carries the id toAlpha(i): a, ..., z, aa, ab.
C6_RootIdsFollowInvocationOrder ==
    /\ \A i \in Inst : counter[i] = nOps[i]
    /\ \A k \in 1..Len(log) :
          log[k].op >= 0 =>
              /\ log[k].id = toAlpha(log[k].op)
              /\ log[k].op = 0 => log[k].id = <<"a">>
              /\ log[k].op = 25 => log[k].id = <<"z">>
              /\ log[k].op = 26 => log[k].id = <<"a", "a">>
              /\ log[k].op = 27 => log[k].id = <<"a", "b">>
    /\ \A c \in 1..Len(calls) :
          calls[c].parent = 0 => calls[c].chain = <<toAlpha(calls[c].op)>>
    /\ \A r \in 1..Len(retries) :
          \A a \in 1..Len(retries[r].ids) :
              \E k \in 1..Len(log) :
                  /\ log[k].src = RetrySrc(r) /\ log[k].type = "start"
                  /\ log[k].op >= 0 /\ log[k].id = retries[r].ids[a]

C6_Witness ==
    /\ counter["global"] = 27
    /\ \E j \in 1..Len(log), k \in 1..Len(log) :
          /\ j < k
          /\ log[j].op = 25 /\ log[j].id = <<"z">>
          /\ log[k].op = 26 /\ log[k].id = <<"a", "a">>

\* C7: the id path of a child is the path of its parent, a dash, and one
\* token; the token of the k-th child invoked with a unit through one parent
\* invocation is toAlpha(k), whichever sibling completes first.
C7_ChildIdsFollowInvocationOrder ==
    /\ \A c \in 1..Len(calls) :
          LET p == calls[c].parent
              k == Cardinality({d \in Children(p) : d < c})
          IN p # 0 =>
              /\ calls[c].chain = calls[p].chain \o <<toAlpha(k)>>
              /\ idStr(calls[c]) = idStr(calls[p]) \o <<"-">> \o toAlpha(k)
              /\ calls[c].depth = calls[p].depth + 1
              /\ \A j \in 1..Len(CallEvents(c)) :
                    CallEvents(c)[j].type # "annotation" =>
                        CallEvents(c)[j].id = idStr(calls[c])
    /\ \A p \in 1..Len(calls) : calls[p].childCounter = Cardinality(Children(p))

C7_Witness ==
    \E p \in 1..Len(calls), c \in 1..Len(calls), d \in 1..Len(calls) :
        /\ calls[c].parent = p /\ calls[d].parent = p /\ c < d
        /\ calls[c].flavor = "async"
        /\ calls[c].st = "pending" /\ calls[d].st = "settled"
        /\ idStr(calls[c]) = <<"a", "-", "a">>
        /\ idStr(calls[d]) = <<"a", "-", "b">>

\* C9: a call whose timer fires while its unit is still running emits one
\* error event with the message "Timeout (<formatted t>)" and no success
\* event, and resolves to null, or to what its handler returned; this stays so
\* once the abandoned unit has returned or thrown.
C9_TimeoutSettlesOnce ==
    \A c \in 1..Len(calls) :
        /\ calls[c].endedBy = "timeout" => Len(TimeoutEvents(c)) = 1
        /\ (Len(TimeoutEvents(c)) >= 1 /\ SinkHeld(c)) =>
            /\ calls[c].timeout > 0 /\ calls[c].timer = "fired"
            /\ Len(TimeoutEvents(c)) = 1
            /\ TimeoutEvents(c)[1].type = "error"
            /\ TimeoutEvents(c)[1].id = idStr(calls[c])
            /\ TimeoutEvents(c)[1].err.msg
                   = "Timeout (" \o formatDuration(calls[c].timeout) \o ")"
            /\ calls[c].timeout = 1500 => TimeoutEvents(c)[1].err.msg = "Timeout (1.5s)"
            /\ Len(OfType(CallEvents(c), "success")) = 0
            /\ calls[c].onErr \in {"none", "returns"} =>
                   Len(OfType(CallEvents(c), "error")) = 1
            /\ calls[c].onErr = "none" => calls[c].outcome = ValueOutcome(Null)
            /\ calls[c].onErr = "returns" => calls[c].outcome = ValueOutcome(Fallback)

C9_Witness ==
    \E c \in 1..Len(calls) :
        /\ calls[c].endedBy = "timeout" /\ calls[c].unit = "returned"
        /\ calls[c].onErr = "returns" /\ calls[c].outcome = ValueOutcome(Fallback)
        /\ Len(TimeoutEvents(c)) = 1
        /\ TimeoutEvents(c)[1].err.msg = "Timeout (1.5s)"

\* C10: retry with attempts = n runs its unit at most n times, one attempt
\* after the other, each labelled "<label> [i/n]"; it stops at the first
\* success and returns its result, after an error event for each earlier
\* attempt; when all n fail there are n error events and it returns null.
\* (The sink is taken to return.)
C10_RetryAttempts ==
    \A r \in 1..Len(retries) :
        LET rec == retries[r]
            evs == RetryEvents(r)
            n == rec.attempts
        IN rec.outcome.kind # "reject" =>
           /\ rec.invoked <= n
           /\ Len(OfType(evs, "start")) = rec.invoked
           /\ \A j \in 1..Len(evs) :
                 LET a == (j + 1) \div 2
                 IN /\ evs[j].label = AttemptLabel(rec.label, a, n)
                    /\ evs[j].id = rec.ids[a]
                    /\ IF j % 2 = 1 THEN evs[j].type = "start"
                       ELSE /\ evs[j].type \in {"error", "success"}
                            /\ evs[j].type = "success" => j = Len(evs) /\ rec.st = "done"
           /\ (rec.label = "job" /\ n = 2 /\ Len(evs) >= 3) =>
                 evs[1].label = "job [1/2]" /\ evs[3].label = "job [2/2]"
           /\ rec.st = "done" =>
                 /\ Len(evs) = 2 * rec.invoked
                 /\ evs[Len(evs)].type = "success" =>
                        rec.outcome = ValueOutcome(evs[Len(evs)].result)
                 /\ evs[Len(evs)].type = "error" =>
                        /\ rec.invoked = n
                        /\ Len(OfType(evs, "error")) = n
                        /\ rec.outcome = ValueOutcome(Null)

C10_Witness ==
    \E r \in 1..Len(retries), q \in 1..Len(retries) :
        /\ retries[r].st = "done" /\ retries[r].attempts = 2 /\ retries[r].invoked = 2
        /\ Len(OfType(RetryEvents(r), "error")) = 1
        /\ Len(OfType(RetryEvents(r), "success")) = 1
        /\ retries[r].outcome = ValueOutcome("ok")
        /\ retries[q].st = "done" /\ retries[q].attempts = 1
        /\ Len(OfType(RetryEvents(q), "error")) = 1
        /\ retries[q].outcome = ValueOutcome(Null)

BatchEvents(b) == LET FromBatch(e) == e.src = BatchSrc(b) IN SelectSeq(log, FromBatch)

\* C11: batch returns one result per item, in order: what the unit returned
\* for the item, or null where it threw; a failing item does not stop the
\* loop; the batch ends with a success event, its last event, whose result
\* is "<count>/<total> ok".  (The sink is taken to return.)
C11_BatchResultsPerItem ==
    \A b \in 1..Len(batches) :
        LET rec == batches[b]
            evs == BatchEvents(b)
        IN ~rec.fault =>
           /\ Len(rec.results) = Len(rec.outs) /\ Len(rec.outs) = rec.i
           /\ \A k \in 1..Len(rec.results) :
                 rec.results[k] = IF rec.outs[k] = "throw" THEN Null ELSE rec.outs[k]
           /\ rec.st = "running" <=> rec.i < rec.total
           /\ rec.st = "done" =>
                 /\ Len(rec.results) = rec.total
                 /\ evs[Len(evs)].type = "success"
                 /\ Len(OfType(evs, "success")) = 1
                 /\ Len(OfType(evs, "error")) = 0
                 /\ \E n \in 0..rec.total :
                       evs[Len(evs)].result = ToString(n) \o "/" \o ToString(rec.total) \o " ok"
           /\ rec.st # "done" => Len(OfType(evs, "success")) = 0

C11_Witness ==
    \E b \in 1..Len(batches) :
        /\ batches[b].st = "done" /\ batches[b].total = 3
        /\ batches[b].outs = <<"ok", "throw", "ok">>
        /\ batches[b].results = <<"ok", Null, "ok">>
        /\ BatchEvents(b)[Len(BatchEvents(b))].result = "2/3 ok"

\* The error the unit of item k of batch b threw.
ItemErr(b, k) == [kind |-> "item", of |-> b, msg |-> "item " \o ToString(k) \o " failed"]

\* C12: every failure has an error event carrying its error: a unit that
\* threw into its wrapper, a timeout, a failed attempt of a retry, a failed
\* item of a batch.
C12_EveryFailureReported ==
    /\ \A c \in 1..Len(calls) :
          /\ calls[c].endedBy = "throw" =>
                \E k \in 1..Len(log) :
                    /\ log[k].type = "error" /\ log[k].src = CallSrc(c)
                    /\ log[k].err = calls[c].thrown
          /\ calls[c].endedBy = "timeout" =>
                \E k \in 1..Len(log) :
                    /\ log[k].type = "error" /\ log[k].src = CallSrc(c)
                    /\ log[k].err = TimeoutErr(c, calls[c].timeout)
    /\ \A r \in 1..Len(retries) :
          \A a \in 1..retries[r].invoked :
              (a < retries[r].invoked \/ retries[r].outcome = ValueOutcome(Null)
                                      \/ retries[r].st = "waiting") =>
                  (retries[r].st = "done" /\ a = retries[r].invoked
                       /\ RetryEvents(r)[Len(RetryEvents(r))].type = "success")
                  \/ \E k \in 1..Len(log) :
                        /\ log[k].type = "error" /\ log[k].src = RetrySrc(r)
                        /\ log[k].err = AttemptErr(r, a)
    /\ \A b \in 1..Len(batches) :
          \A i \in 1..Len(batches[b].threw) :
              batches[b].threw[i] =>
                  \E k \in 1..Len(log) :
                      /\ log[k].type = "error" /\ log[k].src = BatchSrc(b)
                      /\ log[k].err = ItemErr(b, i)

C12_Witness ==
    \E b \in 1..Len(batches) :
        /\ batches[b].st = "done" /\ batches[b].total = 3
        /\ batches[b].threw = <<FALSE, TRUE, FALSE>>
        /\ \A k \in 1..Len(log) : log[k].type # "error"

\* The label-only calls made through the resolver of call p, as positions of
\* the log.
NestedNotes(p) ==
    {k \in 1..Len(log) : log[k].type = "annotation" /\ log[k].src = CallSrc(p)}

\* C13: a label-only call takes one id from the counter of its level and
\* its annotation event carries that id: at top level the next root id, and
\* through the resolver of call p the path of p followed by a token of p's
\* child counter that no other child or label-only call of p carries.
C13_LabelOnlyTakesFreshId ==
    /\ \A k \in 1..Len(log) :
          (log[k].type = "annotation" /\ log[k].src = TopSrc) =>
              log[k].op >= 0 /\ log[k].id = toAlpha(log[k].op)
    /\ \A p \in 1..Len(calls) :
          /\ calls[p].childCounter = Cardinality(Children(p)) + Cardinality(NestedNotes(p))
          /\ \A k \in NestedNotes(p) :
                /\ log[k].id # idStr(calls[p])
                /\ \E j \in 0..(calls[p].childCounter - 1) :
                      log[k].id = idStr(calls[p]) \o <<"-">> \o toAlpha(j)
                /\ \A d \in Children(p) : log[k].id # idStr(calls[d])
                /\ \A m \in NestedNotes(p) : m # k => log[m].id # log[k].id

C13_Witness ==
    \E p \in 1..Len(calls) :
        \E k \in NestedNotes(p), d \in Children(p) :
            /\ log[k].id = idStr(calls[p])
            /\ calls[p].childCounter = 1
            /\ idStr(calls[d]) = idStr(calls[p]) \o <<"-", "a">>

\* A step that is an operation on the root counter of instance i.
RootOpOn(i) ==
    \/ \E l \in Labels, t \in Timeouts, h \in Handlers,
          via \in Vias : Measure(i, l, t, h, via)
    \/ \E l \in Labels, tm \in BOOLEAN, via \in Vias :
          MeasureSync(i, l, tm, via)
    \/ \E l \in Labels : Annotate(i, l)
    \/ \E l \in Labels, n \in 1..(MaxWork \div 2), d \in Delays, b \in Backoffs :
          RetryStart(i, l, n, d, b)
    \/ \E r \in 1..Len(retries) : retries[r].inst = i /\ RetryWake(r)
    \/ \E l \in Labels, total \in 0..(MaxWork \div 2), every \in EveryOpts :
          BatchStart(i, l, total, every)
    \/ ResetCounter(i)

\* C14: a call on an instance, or a reset of it, leaves the root counter of
\* every other instance as it was, and so the ids they assign next; a step
\* that is no operation on a root counter changes none.  (Said of the steps
\* that change a counter: one that changes none satisfies both.)
C14_CountersArePrivate ==
    [][counter' # counter =>
           /\ \E i \in Inst : RootOpOn(i)
           /\ \A i \in Inst :
                 RootOpOn(i) => \A j \in Inst \ {i} : counter'[j] = counter[j]]_vars

C14_Witness ==
    /\ counter["app"] = 0 /\ counter["db"] = 1 /\ counter["global"] = RootStart
    /\ \E c \in 1..Len(calls) : calls[c].inst = "db" /\ calls[c].chain = <<toAlpha(0)>>

\* C15: an event of an instance made with prefix p is identified as
\* "p:<id path>" wherever it is shown, on the console and to a custom logger.
C15_ScopedEventsCarryPrefix ==
    \A k \in 1..Len(log) :
        (log[k].to # "dropped" /\ log[k].pfx # <<>>) =>
            log[k].shown = log[k].pfx \o <<":">> \o log[k].id

C15_Witness ==
    \E k \in 1..Len(log) :
        /\ log[k].to = "logger" /\ log[k].pfx = <<"d", "b">>
        /\ log[k].type = "success"
        /\ log[k].id = <<"a">> /\ log[k].shown = <<"a">>

\* C16: an event emitted while silent goes nowhere; otherwise, with a custom
\* logger configured, it goes to that logger, once, and not to the console,
\* with the result of the unit on success and the caught error on error;
\* otherwise it goes to the console.
C16_EventRouting ==
    /\ \A k \in 1..Len(log) :
          log[k].to = IF log[k].cfg.silent THEN "dropped"
                      ELSE IF log[k].cfg.logger # "none" THEN "logger"
                      ELSE "console"
    /\ \A c \in 1..Len(calls) :
          \A j \in 1..Len(CallEvents(c)) :
              LET e == CallEvents(c)[j]
              IN /\ e.type = "success" => e.result = calls[c].unitVal
                 /\ e.type = "error" => e.err \in {calls[c].caught, HandlerErr(c)}

C16_Witness ==
    \E j \in 1..Len(log), k \in 1..Len(log) :
        /\ j < k
        /\ log[j].cfg.silent /\ log[j].cfg.logger = "sink" /\ log[j].to = "dropped"
        /\ ~log[k].cfg.silent /\ log[k].cfg.logger = "sink" /\ log[k].to = "logger"
        /\ log[k].type = "success" /\ log[k].result = "ok"

\* C17: whatever the configuration, a throwing logger included, measure and
\* measureSync without assert return to their caller, and a unit that
\* returned v makes the call yield v.  (A handler that rejects is C3.)
C17_NeverThrowsWhateverTheSink ==
    \A c \in 1..Len(calls) :
        (calls[c].via # "assert" /\ calls[c].onErr # "rejects") =>
            /\ calls[c].outcome.kind # "reject"
            /\ (calls[c].unit = "returned" /\ calls[c].endedBy # "timeout") =>
                   calls[c].outcome = ValueOutcome(calls[c].unitVal)

C17_Witness ==
    \E c \in 1..Len(calls), d \in 1..Len(calls) :
        /\ calls[c].flavor = "sync" /\ calls[c].via = "measure"
        /\ calls[c].unit = "returned" /\ calls[c].unitVal = "ok"
        /\ calls[c].outcome = RejectOutcome(LoggerErr)
        /\ calls[d].flavor = "async" /\ calls[d].via = "measure"
        /\ calls[d].unit = "unstarted"
        /\ calls[d].outcome = RejectOutcome(LoggerErr)

\* The attribute names the engine reads itself.
Reserved == {"label", "budget", "timeout", "maxResultLength"}

\* C18: for a label object, the metadata of the start and annotation events
\* is exactly the object's attributes other than label, budget, timeout and
\* maxResultLength, and absent when none other remains.
C18_MetaExcludesReserved ==
    (metaPc \in {"start", "annotation"} /\ metaIn.obj) =>
        LET rest == metaIn.keys \ Reserved
        IN  IF rest = {} THEN ~metaOut.present
            ELSE metaOut.present /\ metaOut.keys = rest

\* A label with a timeout and one attribute of the caller's has had its
\* metadata extracted for a start event.
C18_Witness ==
    /\ metaPc = "start"
    /\ metaIn = ObjectLabel({"label", "timeout", "table"})
    /\ metaOut.present

\* The id paths given to units so far: every call with a unit, every attempt
\* of a retry, every batch; ep is the number of resets of the instance before
\* the id was taken (byRoot: before the top-level call above it was made).
IdUses(byRoot) ==
    {[kind |-> "call", n |-> c, a |-> 0, inst |-> calls[c].inst,
      ep |-> IF byRoot THEN calls[c].rootEpoch ELSE calls[c].epoch,
      id |-> idStr(calls[c])] : c \in 1..Len(calls)}
    \cup UNION {{[kind |-> "retry", n |-> r, a |-> a, inst |-> retries[r].inst,
                  ep |-> retries[r].eps[a], id |-> retries[r].ids[a]]
                    : a \in 1..Len(retries[r].ids)} : r \in 1..Len(retries)}
    \cup {[kind |-> "batch", n |-> b, a |-> 0, inst |-> batches[b].inst,
           ep |-> batches[b].ep, id |-> batches[b].id] : b \in 1..Len(batches)}

Collide(u, v) == u # v /\ u.inst = v.inst /\ u.ep = v.ep /\ u.id = v.id

C20_WrappedRunsAsFreshRootCall ==
    /\ \A w \in 1..Len(wraps) :
          /\ wraps[w].rootAfter = wraps[w].rootBefore
          /\ wraps[w].logAfter = wraps[w].logBefore
    /\ \A c \in 1..Len(calls) :
          calls[c].via = "wrap" =>
              /\ calls[c].wrapper \in 1..Len(wraps)
              /\ wraps[calls[c].wrapper].inst = calls[c].inst
              /\ wraps[calls[c].wrapper].label = calls[c].label
              /\ calls[c].parent = 0 /\ calls[c].depth = 0
              /\ calls[c].chain = <<toAlpha(calls[c].op)>>
              /\ calls[c].unit # "unstarted" => calls[c].unitArgs = calls[c].args
              /\ SinkHeld(c) =>
                     /\ calls[c].unit = "returned" =>
                            calls[c].outcome = ValueOutcome(calls[c].unitVal)
                     /\ calls[c].unit = "threw" =>
                            calls[c].outcome = ValueOutcome(Null)

\* A function wrapped when the next root id was a has been invoked after
\* another call took a: the invocation got b, was handed the two arguments
\* it was given, and yielded what the function returned.
C20_Witness ==
    \E c, d \in 1..Len(calls) :
        /\ c # d
        /\ calls[c].via = "wrap" /\ calls[c].chain = <<toAlpha(1)>>
        /\ wraps[calls[c].wrapper].rootBefore = 0
        /\ calls[c].args = <<1, 2>> /\ calls[c].unit = "returned"
        /\ calls[c].outcome = ValueOutcome("ok")
        /\ calls[d].via # "wrap" /\ calls[d].parent = 0 /\ calls[d].chain = <<toAlpha(0)>>

\* The start, success and error events call c emitted for itself, in order
\* (the annotations of label-only calls made through its resolver left out),
\* and the positions in the log of its start events.
Life(c) ==
    LET OwnLife(e) == e.src = CallSrc(c) /\ e.type # "annotation"
    IN  SelectSeq(log, OwnLife)
StartsOf(c) == {k \in 1..Len(log) : log[k].src = CallSrc(c) /\ log[k].type = "start"}

\* C21: a call's start event, when it has one, is its first event and is out
\* before anything its unit does (an event of a nested call, an annotation);
\* while the call is pending it has no terminal event; once settled it has
\* exactly one, a success or an error, followed only by the error event of a
\* handler that threw, and nothing is added later, whatever the unit or the
\* timer still do.  (The sink is taken to return; C17 is about one that
\* throws.)
C21_StartThenOneTerminal ==
    \A c \in 1..Len(calls) :
        LET rec == calls[c]
            evs == Life(c)
            hasStart == rec.flavor = "async" \/ rec.takesM
            terms == SubSeq(evs, Bit(hasStart) + 1, Len(evs))
        IN SinkHeld(c) =>
           /\ rec.chain # <<>>
           /\ Len(OfType(evs, "start")) = Bit(hasStart)
           /\ hasStart => evs[1].type = "start"
           /\ \A k \in 1..Len(log) :
                 (/\ hasStart
                  /\ \/ log[k].src = CallSrc(c) /\ log[k].type # "start"
                     \/ \E d \in Children(c) : log[k].src = CallSrc(d))
                     => \E j \in StartsOf(c) : j < k
           /\ rec.st = "pending" => terms = <<>>
           /\ rec.st = "settled" =>
                 /\ Len(terms) = IF rec.endedBy # "return" /\ rec.onErr = "throws"
                                 THEN 2 ELSE 1
                 /\ terms[1].type = IF rec.endedBy = "return" THEN "success" ELSE "error"
                 /\ Len(terms) = 2 =>
                        /\ terms[2].type = "error"
                        /\ terms[2].err = HandlerErr(c)

\* A call with a timeout and a handler that throws timed out, its unit
\* returned afterwards, and its events are still start, error, error; a sync
\* leaf call has its terminal event alone.
C21_Witness ==
    \E c, d \in 1..Len(calls) :
        /\ calls[c].endedBy = "timeout" /\ calls[c].onErr = "throws"
        /\ calls[c].unit = "returned" /\ calls[c].timer = "fired"
        /\ Len(Life(c)) = 3 /\ Life(c)[1].type = "start"
        /\ Life(c)[2].err = TimeoutErr(c, calls[c].timeout)
        /\ calls[d].flavor = "sync" /\ ~calls[d].takesM /\ calls[d].st = "settled"
        /\ Len(Life(d)) = 1

\* Call c and the calls nested in it, at any depth.
RECURSIVE Within(_)
Within(c) == {c} \cup UNION {Within(d) : d \in Children(c)}

\* The errors caught by the wrappers of call c and of the calls nested in it.
CaughtDuring(c) == {calls[d].caught : d \in Within(c)} \ {NoErr}

\* C22: when assert raises, the cause of the raised error is an error caught
\* during the asserted call: not one left by another call, and not null.
C22_AssertCauseCaughtInCall ==
    \A c \in 1..Len(calls) :
        calls[c].assertSt = "raised" => calls[c].assertCause \in CaughtDuring(c)

\* measureSync.assert raised for a unit that returned null, nothing was caught
\* during it, and the cause is the error an earlier call had thrown.
C22_Witness ==
    \E c, d \in 1..Len(calls) :
        /\ d < c /\ calls[d].parent = 0 /\ calls[c].parent = 0
        /\ calls[d].st = "settled" /\ calls[d].thrown = UnitErr(d)
        /\ calls[c].flavor = "sync" /\ calls[c].assertSt = "raised"
        /\ calls[c].unit = "returned" /\ calls[c].unitVal = Null
        /\ CaughtDuring(c) = {}
        /\ calls[c].assertCause = UnitErr(d)

\* What of an error, an event and an outcome does not depend on which call
\* it belongs to.
ErrShape(e) == [kind |-> e.kind, msg |-> e.msg]
EventShape(e) ==
    [type |-> e.type, label |-> e.label, depth |-> e.depth, result |-> e.result,
     err |-> ErrShape(e.err)]
LifeShape(c) == [k \in 1..Len(Life(c)) |-> EventShape(Life(c)[k])]
OutcomeShape(c) ==
    [kind |-> calls[c].outcome.kind, val |-> calls[c].outcome.val,
     err |-> ErrShape(calls[c].outcome.err)]

\* Async call c has a timeout and its unit completed before the timer fired.
BeatTimer(c) ==
    /\ calls[c].flavor = "async" /\ calls[c].timeout > 0
    /\ calls[c].unit \in {"returned", "threw"}
    /\ TimeoutEvents(c) = <<>>
    /\ SinkHeld(c)

\* Call d is call c made without a timeout: the same kind of call, whose unit
\* did the same.
Untimed(c, d) ==
    /\ calls[d].flavor = "async" /\ calls[d].timeout = 0 /\ SinkHeld(d)
    /\ calls[d].label = calls[c].label /\ calls[d].depth = calls[c].depth
    /\ calls[d].onErr = calls[c].onErr
    /\ calls[d].unit = calls[c].unit /\ calls[d].unitVal = calls[c].unitVal
    /\ ErrShape(calls[d].thrown) = ErrShape(calls[c].thrown)

\* C23: an async call with a timeout whose unit completes before the timer
\* fires is settled by the unit, with the events and the result of the same
\* call made without a timeout; the timer, when it fires later, emits nothing,
\* raises nothing and changes nothing but itself.  (The sink is taken to
\* return.)
C23_UnitBeatsTimer ==
    [][/\ \A c \in 1..Len(calls') :
             BeatTimer(c)' =>
                 /\ calls'[c].st = "settled"
                 /\ \A d \in 1..Len(calls') :
                       Untimed(c, d)' =>
                           /\ LifeShape(c)' = LifeShape(d)'
                           /\ OutcomeShape(c)' = OutcomeShape(d)'
       /\ \A c \in 1..Len(calls) :
             (BeatTimer(c) /\ calls[c].timer = "armed" /\ calls'[c].timer = "fired") =>
                 /\ calls' = [calls EXCEPT ![c].timer = "fired"]
                 /\ UNCHANGED <<log, lastError, counter, nOps, silent, logger,
                                syncStack, retries, batches, epoch, wraps>>]_vars

\* A call with a timeout whose unit returned and whose timer fired afterwards,
\* and the same call without a timeout: both have a start and a success event
\* and the unit's value.
C23_Witness ==
    \E c, d \in 1..Len(calls) :
        /\ BeatTimer(c) /\ Untimed(c, d)
        /\ calls[c].timer = "fired" /\ calls[c].unit = "returned"
        /\ Len(Life(c)) = 2 /\ LifeShape(c) = LifeShape(d)
        /\ calls[c].outcome = ValueOutcome("ok") /\ calls[d].outcome = ValueOutcome("ok")

\* C24: every async call with a unit has one start event, emitted as the
\* call is made; a sync call has one only when its unit declares a
\* parameter; a sync leaf call that has ended has one event in all, its
\* terminal event, and has taken an id all the same: the next one of the root
\* counter, or of its parent's child counter.  (For the single event the sink
\* is taken to return.)
C24_StartEventOnlyWithResolver ==
    \A c \in 1..Len(calls) :
        LET rec == calls[c]
            evs == CallEvents(c)
        IN /\ rec.flavor = "async" => Cardinality(StartsOf(c)) = 1 /\ evs[1].type = "start"
           /\ rec.flavor = "sync" => Cardinality(StartsOf(c)) = Bit(rec.takesM)
           /\ (rec.flavor = "sync" /\ ~rec.takesM) =>
                 /\ (rec.st = "settled" /\ SinkHeld(c)) =>
                        /\ Len(evs) = 1
                        /\ evs[1].type \in {"success", "error"}
                        /\ evs[1].id = idStr(rec)
                 /\ rec.st = "pending" => evs = <<>>
                 /\ (rec.parent = 0 /\ rec.epoch = epoch[rec.inst]) =>
                        /\ rec.chain = <<toAlpha(rec.op)>>
                        /\ counter[rec.inst] > rec.op
                 /\ rec.parent # 0 =>
                        /\ calls[rec.parent].childCounter = Cardinality(Children(rec.parent))
                        /\ \A d \in Children(rec.parent) : d # c => calls[d].chain # rec.chain

\* A sync call whose unit takes the resolver made two leaf calls through it:
\* the parent has a start event, each leaf has its terminal event only, and
\* the leaves have the ids a-a and a-b.
C24_Witness ==
    \E p, c, d \in 1..Len(calls) :
        /\ calls[p].flavor = "sync" /\ calls[p].takesM /\ Cardinality(StartsOf(p)) = 1
        /\ calls[c].parent = p /\ calls[d].parent = p /\ c < d
        /\ ~calls[c].takesM /\ ~calls[d].takesM
        /\ calls[c].st = "settled" /\ calls[d].st = "settled"
        /\ Len(CallEvents(c)) = 1 /\ CallEvents(c)[1].type = "success"
        /\ Len(CallEvents(d)) = 1 /\ CallEvents(d)[1].type = "error"
        /\ idStr(calls[c]) = <<"a", "-", "a">> /\ idStr(calls[d]) = <<"a", "-", "b">>

\* The items of batch b whose unit completed without throwing.
Completed(b) == {k \in 1..Len(batches[b].threw) : ~batches[b].threw[k]}

\* C25: the count in the "<count>/<total> ok" result of a batch's success
\* event is the number of items whose unit completed without throwing, an
\* item whose unit returned null included.
C25_TallyCountsCompletedItems ==
    \A b \in 1..Len(batches) :
        LET rec == batches[b]
            evs == OfType(BatchEvents(b), "success")
        IN (rec.st = "done" /\ evs # <<>>) =>
              evs[1].result = ToString(Cardinality(Completed(b))) \o "/"
                                  \o ToString(rec.total) \o " ok"

\* A finished batch of two items: the unit returned null for the first and a
\* value for the second, neither threw, and the result reads "1/2 ok".
C25_Witness ==
    \E b \in 1..Len(batches) :
        /\ batches[b].st = "done" /\ ~batches[b].fault
        /\ batches[b].outs = <<Null, "ok">>
        /\ Completed(b) = {1, 2}
        /\ OfType(BatchEvents(b), "success")[1].result = "1/2 ok"

\* The labels of the progress annotations of batch b, in the order emitted.
ProgressNotes(b) ==
    LET evs == OfType(BatchEvents(b), "annotation")
    IN [j \in 1..Len(evs) |-> evs[j].label]

\* The labels k/total for the k of ks, in increasing order of k.
RECURSIVE NotesFor(_, _)
NotesFor(ks, total) ==
    IF ks = {} THEN <<>>
    ELSE LET k == CHOOSE x \in ks : \A y \in ks : x >= y
         IN Append(NotesFor(ks \ {k}, total), ProgressLabel(k, total))

BatchEventsIn(lg, b) == LET FromBatch(e) == e.src = BatchSrc(b) IN SelectSeq(lg, FromBatch)

\* C27: a call of measure.batch takes one root id, the next of its
\* instance's counter, and emits its start event, labelled with the item
\* count, before any item is done; from then on the items complete one at a
\* time in input order, each step adding the outcome of the next item and
\* taking no id; the one terminal event comes with the completion of the
\* last item (or at once when there are no items), and all events of the
\* batch carry its id.  (For the terminal event the sink is taken to return.)
C27_BatchSequentialOneId ==
    [][batches' # batches =>
         IF Len(batches') # Len(batches)
         THEN LET b == Len(batches')
                  rec == batches'[b]
                  evs == BatchEventsIn(log', b)
              IN /\ b = Len(batches) + 1
                 /\ SubSeq(batches', 1, Len(batches)) = batches
                 /\ rec.id = toAlpha(counter[rec.inst])
                 /\ counter' = [counter EXCEPT ![rec.inst] = @ + 1]
                 /\ rec.i = 0 /\ rec.outs = <<>>
                 /\ evs[1].type = "start" /\ evs[1].id = rec.id
                 /\ evs[1].label = rec.label \o " (" \o ToString(rec.total) \o " items)"
                 /\ ~rec.fault =>
                       IF rec.total > 0 THEN rec.st = "running" /\ Len(evs) = 1
                       ELSE /\ rec.st = "done" /\ Len(evs) = 2
                            /\ evs[2].type = "success" /\ evs[2].id = rec.id
         ELSE /\ counter' = counter
              /\ \E b \in 1..Len(batches) :
                    LET rec == batches[b]
                        nxt == batches'[b]
                        evs == BatchEventsIn(log', b)
                    IN /\ \A d \in 1..Len(batches) : d # b => batches'[d] = batches[d]
                       /\ rec.st = "running" /\ rec.i < rec.total
                       /\ nxt.i = rec.i + 1 /\ nxt.id = rec.id /\ nxt.total = rec.total
                       /\ Len(nxt.outs) = nxt.i
                       /\ SubSeq(nxt.outs, 1, rec.i) = rec.outs
                       /\ \A j \in 1..Len(evs) : evs[j].id = rec.id
                       /\ Len(OfType(evs, "start")) = 1 /\ evs[1].type = "start"
                       /\ ~nxt.fault =>
                             /\ nxt.st = "done" <=> nxt.i = rec.total
                             /\ Len(OfType(evs, "success")) + Len(OfType(evs, "error"))
                                    = Bit(nxt.i = rec.total)
                             /\ nxt.i = rec.total => evs[Len(evs)].type = "success"]_vars

\* A batch of three items on the default instance, all three done one after
\* the other: one start event labelled "job (3 items)", one success event,
\* the last, and one root id taken since the counter was at 0.
C27_Witness ==
    \E b \in 1..Len(batches) :
        LET evs == BatchEvents(b)
        IN /\ batches[b].st = "done" /\ ~batches[b].fault
           /\ batches[b].inst = "global" /\ batches[b].id = <<"a">>
           /\ batches[b].total = 3 /\ Len(batches[b].outs) = 3
           /\ evs[1].type = "start" /\ evs[1].label = "job (3 items)"
           /\ evs[Len(evs)].type = "success"
           /\ Len(OfType(evs, "start")) = 1 /\ Len(OfType(evs, "success")) = 1
           /\ counter["global"] = 1

\* The attempts of retry r so far are top-level calls of their own: each has
\* an id of one token, toAlpha of the root index it took when it started, its
\* events are at depth 0, and two attempts begun between the same two resets
\* differ in id; with a sink that returns, the events of r are start and
\* terminal event by turns, each pair under the id of its attempt, and the
\* start of an attempt after the first comes right after the error event of
\* the attempt before.
AttemptsAsSiblings(r) ==
    LET rec == retries[r]
        evs == RetryEvents(r)
    IN /\ Len(rec.ids) = Len(OfType(evs, "start"))
       /\ \A j \in 1..Len(evs) : evs[j].depth = 0
       /\ \A a \in 1..Len(rec.ids) :
             /\ IsToken(rec.ids[a])
             /\ \A b \in 1..Len(rec.ids) :
                   (a # b /\ rec.eps[a] = rec.eps[b]) => rec.ids[a] # rec.ids[b]
       /\ rec.outcome.kind # "reject" =>
             /\ Len(evs) = 2 * Len(rec.ids) - Bit(rec.st = "running")
             /\ \A j \in 1..Len(evs) :
                   /\ evs[j].id = rec.ids[(j + 1) \div 2]
                   /\ IF j % 2 = 1
                      THEN /\ evs[j].type = "start"
                           /\ evs[j].op >= 0 /\ evs[j].id = toAlpha(evs[j].op)
                           /\ j > 1 => evs[j - 1].type = "error"
                      ELSE evs[j].type \in {"success", "error"}

\* C28: the attempts of a retry are top-level siblings, each with a fresh
\* root id of one token, its own start event and then its own terminal event
\* at depth 0, the next attempt starting only after the error event of the
\* one before; and whenever any top-level operation of the same instance
\* takes the next id of the root counter, the event that opens it carries
\* that id, and it is not the id of an attempt begun since the last reset of
\* the counter.  (For the order of the events the sink is taken to
\* return; ids given out before and after a reset are the subject of C19.)
C28_AttemptsAreTopLevelSiblings ==
    [][/\ retries' # retries => \A r \in 1..Len(retries') : AttemptsAsSiblings(r)'
       /\ (counter' # counter /\ retries # <<>>) =>
             \A i \in Inst :
                 counter'[i] = counter[i] + 1 =>
                     /\ \A k \in (Len(log) + 1)..Len(log') :
                           (log'[k].op >= 0 /\ log'[k].type \in {"start", "annotation"})
                               => log'[k].id = toAlpha(counter[i])
                     /\ \A r \in 1..Len(retries) :
                           \A a \in 1..Len(retries[r].ids) :
                               (retries[r].inst = i /\ retries[r].eps[a] = epoch[i])
                                   => retries[r].ids[a] # toAlpha(counter[i])]_vars

\* A retry of two attempts on the default instance whose first attempt
\* failed under id a; while it waited a plain call took b; the second
\* attempt then ran under c.
C28_Witness ==
    \E r \in 1..Len(retries), c \in 1..Len(calls) :
        /\ retries[r].inst = "global" /\ calls[c].inst = "global"
        /\ retries[r].ids = << <<"a">>, <<"c">> >>
        /\ calls[c].parent = 0 /\ calls[c].chain = << <<"b">> >>
        /\ retries[r].st = "done" /\ retries[r].outcome.kind # "reject"
        /\ Len(RetryEvents(r)) = 4
        /\ RetryEvents(r)[2].type = "error" /\ RetryEvents(r)[3].type = "start"

\* C29: the waits of a retry are delay, delay * backoff, delay * backoff^2,
\* ..., one after each failed attempt that is not the last allowed: every
\* wait but one still pending has been followed by the next attempt, a retry
\* waits only with attempts remaining, and a retry that has ended, by a
\* success or by the failure of its last attempt, has waited once per
\* earlier attempt and not again; the unit is never invoked more than
\* `attempts` times.
C29_BackoffWaits ==
    \A r \in 1..Len(retries) :
        LET rec == retries[r]
            evs == RetryEvents(r)
            w == rec.waits
        IN /\ rec.invoked <= rec.attempts /\ Len(rec.ids) <= rec.attempts
           /\ \A k \in 1..Len(w) :
                 w[k] = IF k = 1 THEN rec.delay ELSE w[k - 1] * rec.backoff
           /\ Len(w) = Len(rec.ids) - Bit(rec.st # "waiting")
           /\ rec.st = "waiting" =>
                 /\ Len(rec.ids) < rec.attempts
                 /\ evs[Len(evs)].type = "error"
           /\ Len(w) <= Len(OfType(evs, "error"))
           /\ (rec.st = "done" /\ rec.outcome.kind # "reject") =>
                 /\ Len(w) = rec.invoked - 1
                 /\ Len(OfType(evs, "error")) =
                        Len(w) + Bit(evs[Len(evs)].type = "error")
                 /\ evs[Len(evs)].type = "error" => rec.invoked = rec.attempts

\* A retry with attempts 3, delay 100 and backoff 2 whose unit failed three
\* times: it waited 100 and then 200, and not after the third failure.
C29_Witness ==
    \E r \in 1..Len(retries) :
        /\ retries[r].attempts = 3 /\ retries[r].invoked = 3
        /\ retries[r].st = "done" /\ retries[r].outcome = ValueOutcome(Null)
        /\ retries[r].waits = <<100, 200>>
        /\ Len(OfType(RetryEvents(r), "error")) = 3

\* The limit the label of call c or, failing that, of its nearest ancestor
\* specifies.
RECURSIVE NearestLimit(_)
NearestLimit(c) ==
    LET l == limCalls[c].label
    IN IF l.obj /\ l.maxResultLength.has THEN l.maxResultLength
       ELSE IF limCalls[c].parent = 0 THEN Undef
       ELSE NearestLimit(limCalls[c].parent)

\* C30: the maxResultLength on a call's terminal event is the one its own
\* label specifies, 0 included; otherwise that of the nearest ancestor whose
\* label specifies one; otherwise absent.  The budget on the event is the one
\* of the call's own label and absent when the label has none, and a call
\* has a timer, and can time out, only when its own label has a timeout,
\* whatever its ancestors' labels say.
C30_LimitInheritedBudgetTimeoutNot ==
    \A c \in 1..Len(limCalls) :
        LET rec == limCalls[c]
            l == rec.label
        IN /\ rec.st = "ended" <=> rec.events # <<>>
           /\ \A k \in 1..Len(rec.events) :
                 LET e == rec.events[k]
                 IN /\ e.type \in {"success", "error"}
                    /\ e.maxResultLength = NearestLimit(c)
                    /\ (l.obj /\ l.maxResultLength.has) =>
                          e.maxResultLength = l.maxResultLength
                    /\ e.budget = IF l.obj /\ l.budget.has THEN l.budget ELSE Undef
                    /\ e.err = "timeout" =>
                          l.obj /\ l.timeout.has /\ rec.flavor = "async"
           /\ rec.timer # "none" <=> (rec.flavor = "async" /\ l.obj /\ l.timeout.has)

\* Three nested calls, ended: the outer label has maxResultLength 9, budget
\* 50 and timeout 1500, the middle one maxResultLength 0, the inner one is a
\* plain string.  The events carry 9, 0 and 0; only the outer one carries a
\* budget and only the outer call had a timer.
C30_Witness ==
    \E g, p, c \in 1..Len(limCalls) :
        /\ limCalls[g].parent = 0 /\ limCalls[p].parent = g /\ limCalls[c].parent = p
        /\ limCalls[g].label = OptLabel(Num(9), Num(50), Num(1500))
        /\ limCalls[p].label = OptLabel(Num(0), Undef, Undef)
        /\ limCalls[c].label = StringLabel
        /\ limCalls[g].flavor = "async" /\ limCalls[g].timer = "armed"
        /\ limCalls[p].timer = "none" /\ limCalls[c].timer = "none"
        /\ \A d \in {g, p, c} : Len(limCalls[d].events) = 1
        /\ limCalls[g].events[1].maxResultLength = Num(9)
        /\ limCalls[g].events[1].budget = Num(50)
        /\ limCalls[p].events[1].maxResultLength = Num(0)
        /\ limCalls[c].events[1].maxResultLength = Num(0)
        /\ limCalls[c].events[1].budget = Undef

\* C31: the handler of a call is invoked at most once, and only when the
\* unit threw or the call timed out: after the call's error event, which is
\* the last event emitted before it, and with the error that event carries,
\* the one the catch block caught.  When the unit's return ends the call the
\* handler is not invoked and the call returns what the unit returned.  A
\* call without a handler, and every sync call, invokes none.
C31_HandlerOnceAfterErrorEvent ==
    \A c \in 1..Len(calls) :
        LET rec == calls[c]
            hs == rec.onErrorCalls
        IN /\ Len(hs) <= 1
           /\ (rec.onErr = "none" \/ rec.flavor = "sync") => hs = <<>>
           /\ (rec.st = "settled" /\ rec.onErr # "none" /\ rec.endedBy \in {"throw", "timeout"})
                 => Len(hs) = 1
           /\ \A k \in 1..Len(hs) :
                 /\ rec.endedBy \in {"throw", "timeout"}
                 /\ rec.endedBy = "throw" => rec.unit = "threw" /\ hs[k].arg = rec.thrown
                 /\ rec.endedBy = "timeout" => hs[k].arg = TimeoutErr(c, rec.timeout)
                 /\ hs[k].arg = rec.caught
                 /\ hs[k].after \in 1..Len(log)
                 /\ log[hs[k].after].src = CallSrc(c)
                 /\ log[hs[k].after].type = "error"
                 /\ log[hs[k].after].label = rec.label
                 /\ log[hs[k].after].err = hs[k].arg
                 /\ \A j \in 1..Len(log) :
                       (log[j].src = CallSrc(c) /\ log[j].label = rec.label
                            /\ log[j].type = "error") => j <= hs[k].after
           /\ rec.endedBy = "return" =>
                 /\ hs = <<>>
                 /\ rec.outcome = ValueOutcome(rec.unitVal)

\* Two calls with a handler that returns a fallback: the unit of the first
\* threw and its handler was invoked once with that error, after the error
\* event; the unit of the second returned and its handler was not invoked.
C31_Witness ==
    \E c, d \in 1..Len(calls) :
        /\ calls[c].onErr = "returns" /\ calls[c].endedBy = "throw"
        /\ calls[c].onErrorCalls = <<[arg |-> UnitErr(c), after |-> 2]>>
        /\ log[2].type = "error" /\ log[2].err = UnitErr(c)
        /\ calls[c].outcome = ValueOutcome(Fallback)
        /\ calls[d].onErr = "returns" /\ calls[d].endedBy = "return"
        /\ calls[d].onErrorCalls = <<>> /\ calls[d].outcome = ValueOutcome("ok")

\* The calls cs as they would be had no label carried a budget.
NoBudget(l) == [l EXCEPT !.budget = Undef]
WithoutBudgets(cs) ==
    [c \in 1..Len(cs) |->
        [cs[c] EXCEPT !.label = NoBudget(@), !.budget = Undef,
                      !.events = [k \in 1..Len(@) |-> [@[k] EXCEPT !.budget = Undef]]]]

\* C32: a budget changes nothing but the budget field of the terminal
\* events.  Whatever step the calls take, the same calls with the budgets
\* struck from their labels can take the same step, and come out the same but
\* for that field: the same ids, the same timers, the same kinds of events in
\* the same order, the same returned values.
C32_BudgetIsAdvisory ==
    [][limCalls' # limCalls =>
         LET was == WithoutBudgets(limCalls)
             now == WithoutBudgets(limCalls')
             c == Len(limCalls')
         IN /\ IF Len(limCalls') > Len(limCalls)
               THEN LET l == NoBudget(limCalls'[c].label)
                        p == limCalls'[c].parent
                    IN IF p = 0
                       THEN /\ CanMeasure(was)
                            /\ now = AfterMeasure(was, counter["global"], limCalls'[c].flavor, l)
                       ELSE CanChild(was, p) /\ now = AfterChild(was, p, l)
               ELSE \E d \in 1..Len(limCalls) :
                        \/ \E ok \in BOOLEAN :
                              /\ limCalls' = AfterUnitEnds(limCalls, d, ok)
                              /\ LimMayRun(was, d) /\ now = AfterUnitEnds(was, d, ok)
                        \/ /\ limCalls' = AfterTimerFires(limCalls, d)
                           /\ CanFire(was, d) /\ now = AfterTimerFires(was, d)
            /\ \A d \in 1..Len(limCalls') :
                  \A k \in 1..Len(limCalls'[d].events) :
                      limCalls'[d].events[k].budget = limCalls'[d].label.budget]_vars

\* A call labelled with a budget and nothing else, and a child with a budget,
\* a limit and a timeout: the child timed out, the parent's unit returned.
\* The ids are a and a-a and the events carry the budget 50.
C32_Witness ==
    \E p, c \in 1..Len(limCalls) :
        /\ limCalls[p].label = OptLabel(Undef, Num(50), Undef)
        /\ limCalls[p].parent = 0 /\ limCalls[c].parent = p
        /\ limCalls[c].label = OptLabel(Num(9), Num(50), Num(1500))
        /\ limCalls[p].timer = "none" /\ limCalls[c].timer = "fired"
        /\ Join(limCalls[p].chain) = <<"a">> /\ Join(limCalls[c].chain) = <<"a", "-", "a">>
        /\ limCalls[p].outcome = ValueOutcome("ok") /\ limCalls[c].outcome = ValueOutcome(Null)
        /\ limCalls[p].events[1].type = "success" /\ limCalls[p].events[1].budget = Num(50)
        /\ limCalls[c].events[1].err = "timeout" /\ limCalls[c].events[1].budget = Num(50)

\* The positions in the log of the success and error events of call c.
TerminalsOf(c) ==
    {k \in 1..Len(log) : log[k].src = CallSrc(c) /\ log[k].type \in {"success", "error"}}

\* A child's start event follows its parent's.
StartsInCallOrder ==
    \A c \in 1..Len(calls) :
        (calls[c].flavor = "async" /\ calls[c].parent # 0) =>
            /\ StartsOf(calls[c].parent) # {}
            /\ \A j \in StartsOf(calls[c].parent) : \A k \in StartsOf(c) : j < k

\* The terminal events of child c all come before those of its parent p.
EndsBefore(c, p) ==
    /\ TerminalsOf(c) # {}
    /\ \A j \in TerminalsOf(c) : \A k \in TerminalsOf(p) : j < k

\* C33 as stated: in an async tree a child's start event follows its
\* parent's, and the terminal event of a child that the parent's unit can have
\* awaited (it settled before that unit ended) comes before the parent's
\* terminal event.  (The sink is taken to return.)
C33_AwaitedChildEndsFirst ==
    /\ StartsInCallOrder
    /\ \A p \in 1..Len(calls) :
          (calls[p].flavor = "async" /\ calls[p].st = "settled" /\ SinkHeld(p)) =>
              \A c \in calls[p].awaitable : SinkHeld(c) => EndsBefore(c, p)

\* C33, amended: in an async tree a child's start event follows its
\* parent's, and when the parent ends with its unit, by the unit's return or
\* throw and not by a timeout, the terminal event of a child that the unit
\* can have awaited comes before the parent's terminal event.  (The sink is
\* taken to return.)
C33_AwaitedChildEndsFirstUnlessTimedOut ==
    /\ StartsInCallOrder
    /\ \A p \in 1..Len(calls) :
          (/\ calls[p].flavor = "async" /\ calls[p].st = "settled" /\ SinkHeld(p)
           /\ calls[p].endedBy \in {"return", "throw"}) =>
              \A c \in calls[p].awaitable : SinkHeld(c) => EndsBefore(c, p)

\* A parent whose unit awaited two children: both were started before either
\* ended, the second ended first, and the parent's success event is the last
\* of the six events.
C33_Witness ==
    \E p, c, d \in 1..Len(calls) :
        /\ calls[p].flavor = "async" /\ calls[p].endedBy = "return"
        /\ c < d /\ calls[p].awaitable = {c, d}
        /\ Len(log) = 6
        /\ log[1].src = CallSrc(p) /\ log[1].type = "start"
        /\ log[2].src = CallSrc(c) /\ log[2].type = "start"
        /\ log[3].src = CallSrc(d) /\ log[3].type = "start"
        /\ log[4].src = CallSrc(d) /\ log[4].type \in {"success", "error"}
        /\ log[5].src = CallSrc(c) /\ log[5].type \in {"success", "error"}
        /\ log[6].src = CallSrc(p) /\ log[6].type = "success"

\* The positions in the log of the events of call c, and of c and the calls
\* nested in it.
EventsOf(c) == {k \in 1..Len(log) : log[k].src = CallSrc(c)}
EventsWithin(c) == UNION {EventsOf(d) : d \in Within(c)}

\* C34: in a sync tree the events are properly nested.  Every event of a
\* call nested in call a, at any depth, comes after the start event of a and
\* before the terminal event of a; and of two calls made through the same
\* resolver, every event of the earlier one and of the calls nested in it
\* comes before every event of the later one and of the calls nested in it.
C34_SyncEventsProperlyNested ==
    \A a \in 1..Len(calls) :
        calls[a].flavor = "sync" =>
            /\ \A d \in Within(a) \ {a} :
                  /\ StartsOf(a) # {}
                  /\ \A k \in EventsOf(d) :
                        /\ \A j \in StartsOf(a) : j < k
                        /\ \A j \in TerminalsOf(a) : k < j
            /\ \A c, d \in Children(a) :
                  c < d => \A j \in EventsWithin(c) : \A k \in EventsWithin(d) : j < k

\* A sync call with two children, the first with a resolver parameter, the
\* second a leaf: the log is the start of a, the start and the terminal event
\* of a-a, the terminal event of a-b, and the terminal event of a.
C34_Witness ==
    \E a, c, d \in 1..Len(calls) :
        /\ calls[a].flavor = "sync" /\ calls[a].parent = 0 /\ calls[a].st = "settled"
        /\ calls[c].parent = a /\ calls[d].parent = a /\ c < d
        /\ Len(log) = 5
        /\ log[1].src = CallSrc(a) /\ log[1].type = "start"
        /\ log[2].src = CallSrc(c) /\ log[2].type = "start"
        /\ log[3].src = CallSrc(c) /\ log[3].type \in {"success", "error"}
        /\ log[4].src = CallSrc(d) /\ log[4].type \in {"success", "error"}
        /\ log[5].src = CallSrc(a) /\ log[5].type \in {"success", "error"}

\* C35: there is one configuration for all instances.  Every event emitted
\* in a step, by the default instance or a scoped one, goes where the
\* setting of silent and logger in force before the step sends it: nowhere
\* when silent, else to the custom logger when there is one, else to the
\* console.  A step that changes the setting emits nothing and leaves every
\* counter as it is, and a step changes the counter of one instance at most.
C35_OneConfigurationManyCounters ==
    [][/\ log' # log =>
             \A k \in (Len(log) + 1)..Len(log') :
                 /\ log'[k].pfx \in {PrefixOf(i) : i \in Inst}
                 /\ log'[k].to = IF silent THEN "dropped"
                                 ELSE IF logger # "none" THEN "logger"
                                 ELSE "console"
       /\ (silent' # silent \/ logger' # logger) => counter' = counter /\ log' = log
       /\ counter' # counter =>
             \E i \in Inst : \A j \in Inst \ {i} : counter'[j] = counter[j]]_vars

\* A call of the instance 'db' started under the default configuration, and
\* a custom logger was installed before its unit returned: the start event
\* went to the console, the success event to the logger; the counter of db
\* is at 1 and that of the default instance at 0.
C35_Witness ==
    \E c \in 1..Len(calls) :
        /\ calls[c].inst = "db" /\ calls[c].endedBy = "return"
        /\ logger = "sink" /\ ~silent
        /\ Len(log) = 2
        /\ log[1].pfx = PrefixOf("db") /\ log[1].to = "console"
        /\ log[2].pfx = PrefixOf("db") /\ log[2].to = "logger"
        /\ counter["db"] = 1 /\ counter["global"] = 0 /\ counter["app"] = 0

\* C36: silent and logger affect output only.  Under the default
\* configuration no call ends in an emit, so a call that has ended has had
\* its unit invoked and owes what it returned to the unit, the handler or the
\* timer; the claim says the same of every configuration: no call is ended
\* by the sink, none returns the sink's error, and a unit that returned
\* within its time is what the call returned.
C36_ConfigurationAffectsOutputOnly ==
    \A c \in 1..Len(calls) :
        calls[c].st = "settled" =>
            /\ calls[c].endedBy # "emit"
            /\ calls[c].unit # "unstarted"
            /\ calls[c].outcome.err # LoggerErr
            /\ (calls[c].unit = "returned" /\ calls[c].endedBy = "return") =>
                   calls[c].outcome = ValueOutcome(calls[c].unitVal)

\* The same call made twice, measureSync of a unit that returns 'ok': the
\* first under the default configuration returned 'ok'; the second, after
\* configure installed a logger that throws, took the next id as it would
\* have and threw the logger's error.
C36_Witness ==
    \E c \in 1..Len(calls), d \in 1..Len(calls) :
        /\ c < d /\ logger = "throws" /\ ~silent
        /\ calls[c].flavor = "sync" /\ calls[d].flavor = "sync"
        /\ calls[c].inst = "global" /\ calls[d].inst = "global"
        /\ calls[c].label = calls[d].label
        /\ calls[c].unit = "returned" /\ calls[c].unitVal = "ok"
        /\ calls[d].unit = "returned" /\ calls[d].unitVal = "ok"
        /\ calls[c].chain = <<"a">> /\ calls[d].chain = <<"b">>
        /\ counter["global"] = 2
        /\ calls[c].outcome = ValueOutcome("ok")
        /\ calls[d].outcome = RejectOutcome(LoggerErr)

\* C37: a call of configure sets each option that its argument gives and
\* leaves each option that is absent or undefined as it was; it changes no
\* counter and no captured last error, and given logger: null it leaves no
\* custom logger.  No other step changes the configuration.
C37_ConfigureChangesOnlyWhatIsGiven ==
    [][IF lastOpts' # lastOpts
       THEN LET o == lastOpts'.opts IN
            /\ silent' = (IF o.silent.has THEN o.silent.v ELSE silent)
            /\ logger' = (IF o.logger.has THEN o.logger.v ELSE logger)
            /\ rendering'.timestamps =
                  (IF o.timestamps.has THEN o.timestamps.v ELSE rendering.timestamps)
            /\ rendering'.maxResultLen =
                  (IF o.maxResultLength.has THEN o.maxResultLength.v
                   ELSE rendering.maxResultLen)
            /\ rendering'.dotEndLabel =
                  (IF o.dotEndLabel.has THEN o.dotEndLabel.v ELSE rendering.dotEndLabel)
            /\ rendering'.dotChar =
                  (IF o.dotChar.has THEN o.dotChar.v ELSE rendering.dotChar)
            /\ counter' = counter /\ nOps' = nOps /\ epoch' = epoch
            /\ lastError' = lastError
            /\ calls' = calls /\ log' = log
            /\ (o.logger = Given("none")) => logger' = "none"
       ELSE silent' = silent /\ logger' = logger /\ rendering' = rendering]_vars

\* configure installed a logger and set dotChar; a measureSync call of a
\* unit that threw sent its events to the logger and left its error as the
\* last error; then configure({ logger: null }) removed the logger and left
\* dotChar, the counter and the last error as they were.
C37_Witness ==
    /\ lastOpts.n = 2
    /\ lastOpts.opts = [NoOpts.opts EXCEPT !.logger = Given("none")]
    /\ logger = "none" /\ ~silent
    /\ rendering = [RenderingAtLoad EXCEPT !.dotChar = "*"]
    /\ Len(log) = 2 /\ log[1].to = "logger" /\ log[2].to = "logger"
    /\ counter["global"] = 1
    /\ lastError["global"] # NoErr

\* The tokens of a rendered id path are separated by '-'.
Tokens(id) == Cardinality({k \in 1..Len(id) : id[k] = "-"}) + 1

\* C38: the depth of every start, success and error event is the number of
\* tokens of its id less one; a root call is at depth 0 and a child one
\* deeper than its parent.
C38_DepthIsTokensLessOne ==
    /\ \A k \in 1..Len(log) :
           log[k].type \in {"start", "success", "error"} =>
               log[k].depth = Tokens(log[k].id) - 1
    /\ \A c \in 1..Len(calls) :
           /\ Len(calls[c].chain) = calls[c].depth + 1
           /\ calls[c].depth = IF calls[c].parent = 0 THEN 0
                                ELSE calls[calls[c].parent].depth + 1

\* A root, its child and its grandchild have started: ids of one, two and
\* three tokens at depths 0, 1 and 2.
C38_Witness ==
    /\ Len(log) >= 3
    /\ log[1].type = "start" /\ Tokens(log[1].id) = 1 /\ log[1].depth = 0
    /\ log[2].type = "start" /\ Tokens(log[2].id) = 2 /\ log[2].depth = 1
    /\ log[3].type = "start" /\ Tokens(log[3].id) = 3 /\ log[3].depth = 2

\* Call d is timed call c made through the plain function: the same kind of
\* call, whose unit did the same.
Untimed39(c, d) ==
    /\ calls[d].via = "measure" /\ calls[d].parent = 0
    /\ calls[d].flavor = calls[c].flavor /\ calls[d].takesM = calls[c].takesM
    /\ calls[d].timeout = 0 /\ calls[d].onErr = "none"
    /\ calls[d].label = calls[c].label
    /\ calls[d].st = "settled" /\ SinkHeld(d)
    /\ calls[d].unit = calls[c].unit /\ calls[d].unitVal = calls[c].unitVal
    /\ ErrShape(calls[d].thrown) = ErrShape(calls[c].thrown)

\* Timed call c has ended and no emit threw in it.
TimedEnded(c) == calls[c].via = "timed" /\ calls[c].st = "settled" /\ SinkHeld(c)

\* C39: a call of measure.timed or measureSync.timed is one root call: it
\* takes one id of the root counter and makes one call record, with the
\* events of the same call made through measure or measureSync.  It returns
\* { result, duration } with the unit's value, or null when the unit failed,
\* as result, which is what the plain call returns, and a duration that is
\* not negative; a unit that fails never makes it throw.  Resuming after the
\* await takes no id and emits nothing.  (The sink is taken to return; C17
\* is about one that throws.)
C39_TimedIsOnePlainCallTimed ==
    [][/\ \A c \in 1..Len(calls') :
             calls'[c].via = "timed" =>
                 /\ calls'[c].parent = 0 /\ Len(calls'[c].chain) = 1
                 /\ TimedEnded(c)' =>
                       /\ calls'[c].timedSt # "aborted"
                       /\ calls'[c].flavor = "sync" => calls'[c].timedSt = "returned"
                       /\ \A d \in 1..Len(calls') :
                             Untimed39(c, d)' =>
                                 /\ LifeShape(c)' = LifeShape(d)'
                                 /\ OutcomeShape(c)' = OutcomeShape(d)'
                 /\ calls'[c].timedSt = "returned" =>
                       /\ TimedEnded(c)'
                       /\ calls'[c].timedOut.result = calls'[c].outcome.val
                       /\ calls'[c].timedOut.result =
                             (IF calls'[c].unit = "returned" THEN calls'[c].unitVal
                              ELSE Null)
                       /\ calls'[c].timedOut.duration >= 0
       /\ (Len(calls') > Len(calls) /\ calls'[Len(calls')].via = "timed") =>
             LET i == calls'[Len(calls')].inst
             IN /\ Len(calls') = Len(calls) + 1
                /\ counter' = [counter EXCEPT ![i] = @ + 1]
                /\ calls'[Len(calls')].chain = <<toAlpha(counter[i])>>
       /\ \A c \in 1..Len(calls) :
             (calls[c].timedSt = "waiting" /\ calls[c].st = "settled"
                  /\ calls'[c].timedSt # "waiting") =>
                 counter' = counter /\ log' = log /\ lastError' = lastError]_vars

\* measure.timed of a unit that threw returned { result: null, duration }
\* with the start and error events between the two readings of the clock,
\* and the same call made through measure had the same events and returned
\* null.
C39_Witness ==
    \E c, d \in 1..Len(calls) :
        /\ TimedEnded(c) /\ calls[c].flavor = "async" /\ calls[c].unit = "threw"
        /\ Untimed39(c, d)
        /\ calls[c].timedSt = "returned"
        /\ calls[c].timedOut = [result |-> Null, duration |-> 2]
        /\ Len(Life(c)) = 2 /\ LifeShape(c) = LifeShape(d)
        /\ calls[d].outcome = ValueOutcome(Null)

====
